---- MODULE Spec2Model ----
(***************************************************************************)
(* Model of the phishing-detector extension's scoring engine               *)
(* (PhishingDetector) and of its result cache (CacheManager).              *)
(*                                                                         *)
(* JavaScript strings are TLA+ strings; a character is a string of length  *)
(* one.  A JS Map is a sequence of [key, val] records in insertion order   *)
(* (Map iteration order is insertion order, and re-setting an existing key *)
(* keeps its position).  Date.now() is the variable now.                   *)
(***************************************************************************)
EXTENDS Integers, Sequences, FiniteSets, TLC

VARIABLES
    now,          \* Date.now()
    cache,        \* CacheManager.cache : Map key -> {data, timestamp}
    accessOrder,  \* CacheManager.accessOrder : Map key -> last access time
    stats,        \* CacheManager.stats
    exported,     \* the last string returned by CacheManager.export()
    last,         \* the last cache operation and what it returned
    pc,           \* position of the running analyze() call
    call,         \* arguments of the running / last analyze() call
    results,      \* analyze(): the local object `results`
    passes,       \* analyze(): the per-pass analyses merged so far
    ret,          \* what the last analyze() call returned
    nops,         \* number of operations performed so far
    recency,      \* the keys of the cache, least recently accessed first (history)
    memo,         \* the functions of the URL text alone (_generateKey, new URL,
                  \* _analyzeURL) tabulated over the model's URLs; never changes
    probe         \* arguments and results of _getRiskLevel applied on its own

vars == <<now, cache, accessOrder, stats, exported, last, pc, call, results, passes, ret,
          nops, recency, memo, probe>>

cacheVars == <<cache, accessOrder, stats>>
engineVars == <<pc, call, results, passes, ret>>

\* JavaScript null / undefined as a returned value
Null == [isNull |-> TRUE]

(***************************************************************************)
(* Bounds of the model.                                                    *)
(***************************************************************************)
MaxTime == 2      \* the clock runs over 0..MaxTime
MaxOps == 4       \* cache operations / analyze calls per behaviour
MaxEntries == 2   \* CacheManager.maxEntries of the modelled instance
TtlMs == 1        \* CacheManager.ttlMs of the modelled instance

(***************************************************************************)
(* Strings.                                                                *)
(***************************************************************************)
Min(a, b) == IF a <= b THEN a ELSE b
Max(a, b) == IF a >= b THEN a ELSE b

CharAt(s, i) == SubSeq(s, i, i)

\* String.prototype.includes
Includes(s, t) ==
    \E i \in 1..(Len(s) - Len(t) + 1) : SubSeq(s, i, i + Len(t) - 1) = t

\* the positions at which t occurs in s
Occurrences(s, t) ==
    {i \in 1..(Len(s) - Len(t) + 1) : SubSeq(s, i, i + Len(t) - 1) = t}

\* String.prototype.indexOf, 0 when absent (positions are 1-based here)
IndexOf(s, t) ==
    LET occ == Occurrences(s, t)
    IN  IF occ = {} THEN 0 ELSE CHOOSE i \in occ : \A j \in occ : i <= j

\* String.prototype.lastIndexOf, 0 when absent
LastIndexOf(s, t) ==
    LET occ == Occurrences(s, t)
    IN  IF occ = {} THEN 0 ELSE CHOOSE i \in occ : \A j \in occ : i >= j

StartsWith(s, t) == Len(t) <= Len(s) /\ SubSeq(s, 1, Len(t)) = t
EndsWith(s, t) == Len(t) <= Len(s) /\ SubSeq(s, Len(s) - Len(t) + 1, Len(s)) = t

UpperChars == "ABCDEFGHIJKLMNOPQRSTUVWXYZ"
LowerChars == "abcdefghijklmnopqrstuvwxyz"

UpperSet == {CharAt(UpperChars, i) : i \in 1..Len(UpperChars)}
LowerTable == [c \in UpperSet |-> CharAt(LowerChars, IndexOf(UpperChars, c))]

LowerChar(c) == IF c \in UpperSet THEN LowerTable[c] ELSE c

RECURSIVE ToLowerCase(_)
\* String.prototype.toLowerCase
ToLowerCase(s) ==
    IF s = "" THEN "" ELSE LowerChar(CharAt(s, 1)) \o ToLowerCase(Tail(s))

RECURSIVE Split(_, _)
\* String.prototype.split on a one-character separator
Split(s, sep) ==
    IF ~Includes(s, sep) THEN <<s>>
    ELSE LET i == IndexOf(s, sep)
         IN  <<SubSeq(s, 1, i - 1)>> \o Split(SubSeq(s, i + 1, Len(s)), sep)

\* index of the first character of s from position `from` on that is in `stops`,
\* Len(s) + 1 when there is none
FirstOf(s, from, stops) ==
    LET hits == {i \in from..Len(s) : Includes(stops, CharAt(s, i))}
    IN  IF hits = {} THEN Len(s) + 1
        ELSE CHOOSE i \in hits : \A j \in hits : i <= j

(***************************************************************************)
(* new URL(s) for http(s) URLs: scheme "://" [userinfo "@"] host [":" port]*)
(* path ["?" query] ["#" fragment].  Scheme and host are lowercased, an    *)
(* empty path is "/".  Anything else (no scheme, empty host) throws.       *)
(***************************************************************************)
SchemeOf(s) ==
    LET i == IndexOf(s, "://")
    IN  IF i = 0 THEN "" ELSE ToLowerCase(SubSeq(s, 1, i - 1))

AuthorityEnd(s) == FirstOf(s, IndexOf(s, "://") + 3, "/?#")

AuthorityOf(s) == SubSeq(s, IndexOf(s, "://") + 3, AuthorityEnd(s) - 1)

HostPortOf(s) ==
    LET a == AuthorityOf(s)
        k == LastIndexOf(a, "@")
    IN  SubSeq(a, k + 1, Len(a))

HostnameOf(s) ==
    LET hp == HostPortOf(s)
        k == IndexOf(hp, ":")
    IN  ToLowerCase(IF k = 0 THEN hp ELSE SubSeq(hp, 1, k - 1))

UrlParses(s) ==
    /\ SchemeOf(s) \in {"http", "https"}
    /\ HostnameOf(s) # ""

ParseURL(s) ==
    LET ae == AuthorityEnd(s)
        pe == FirstOf(s, ae, "?#")
        qe == FirstOf(s, ae, "#")
        a == AuthorityOf(s)
        k == LastIndexOf(a, "@")
        hp == HostPortOf(s)
        c == IndexOf(hp, ":")
        path == SubSeq(s, ae, pe - 1)
    IN  [ protocol |-> SchemeOf(s) \o ":",
          userinfo |-> IF k = 0 THEN "" ELSE SubSeq(a, 1, k),
          hostname |-> HostnameOf(s),
          port     |-> IF c = 0 THEN "" ELSE SubSeq(hp, c, Len(hp)),
          pathname |-> IF path = "" THEN "/" ELSE path,
          search   |-> SubSeq(s, pe, qe - 1),
          hash     |-> SubSeq(s, qe, Len(s)) ]

\* URL.prototype.toString
UrlToString(u) ==
    u.protocol \o "//" \o u.userinfo \o u.hostname \o u.port \o u.pathname \o u.search \o u.hash

(***************************************************************************)
(* JS Map as a sequence of [key, val] in insertion order.                  *)
(***************************************************************************)
MapKeys(m) == {m[i].key : i \in 1..Len(m)}
MapHas(m, k) == k \in MapKeys(m)
MapIndex(m, k) == CHOOSE i \in 1..Len(m) : m[i].key = k
MapGet(m, k) == m[MapIndex(m, k)].val
MapSet(m, k, v) ==
    IF MapHas(m, k)
    THEN [m EXCEPT ![MapIndex(m, k)] = [key |-> k, val |-> v]]
    ELSE Append(m, [key |-> k, val |-> v])
MapDelete(m, k) == SelectSeq(m, LAMBDA e : e.key # k)

(***************************************************************************)
(* CacheManager.  Each method is an operator from the manager's fields     *)
(* cm = [cache, accessOrder, stats] and the clock reading t to the new     *)
(* fields and the returned value.                                          *)
(***************************************************************************)
ZeroStats == [hits |-> 0, misses |-> 0, evictions |-> 0, sets |-> 0]

NewCache == [cache |-> <<>>, accessOrder |-> <<>>, stats |-> ZeroStats]

\* _generateKey without the lowercasing
ComputeKey_KeepCase(url) ==
    IF UrlParses(url)
    THEN UrlToString([ParseURL(url) EXCEPT !.hash = ""])
    ELSE url

\* _generateKey, computed
ComputeKey(url) ==
    IF UrlParses(url)
    THEN ToLowerCase(UrlToString([ParseURL(url) EXCEPT !.hash = ""]))
    ELSE ToLowerCase(url)

\* every URL string the model passes to the cache or to the engine
CacheUrls == {"https://a.com/x", "HTTPS://A.com/x#f", "http://b.org/", ""}
IOUrls == {"https://a.com/x", "http://b.org/"}
EngineUrls == {"https://accounts.google.com/signin", "http://192.168.1.1/login", "not a url"}
KeyUrls == {"https://a.com/x", "HTTPS://A.com/x#f", "Not A Url", "not a url"}
PageUrls == {"http://shop.test/", "https://shop.test/"}
CountedUrls == {"https://accounts.google.com/signin", "http://192.168.1.1/login",
                "https://a.com/x", "https://a.com/x#verify"}
AllUrls == CacheUrls \cup IOUrls \cup EngineUrls \cup KeyUrls \cup PageUrls \cup CountedUrls

\* _generateKey of the model's URLs, tabulated once
KeyTable == [u \in AllUrls |-> ComputeKey(u)]

\* new URL(url) of the model's URLs, tabulated once (Null: the constructor throws)
ParseTable == [u \in AllUrls |-> IF UrlParses(u) THEN ParseURL(u) ELSE Null]

\* _generateKey
GenerateKey(url) == memo.key[url]

\* _isExpired with >= in place of >
IsExpired_Ge(entry, t) == t - entry.timestamp >= TtlMs

\* _isExpired
IsExpired(entry, t) == t - entry.timestamp > TtlMs

\* the loop of _evictLRU: the first key, in Map order, with the smallest time
\* (the comparison is strict, so a later key with an equal time does not win)
LruIndex(ao) ==
    CHOOSE i \in 1..Len(ao) :
        /\ \A j \in 1..Len(ao) : ao[i].val <= ao[j].val
        /\ \A j \in 1..(i - 1) : ao[j].val > ao[i].val

\* an eviction that forgets the access-time map
EvictLRU_CacheOnly(cm) ==
    IF cm.accessOrder = <<>> THEN cm
    ELSE LET lruKey == cm.accessOrder[LruIndex(cm.accessOrder)].key
         IN  IF lruKey = "" THEN cm
             ELSE [cache       |-> MapDelete(cm.cache, lruKey),
                   accessOrder |-> cm.accessOrder,
                   stats       |-> [cm.stats EXCEPT !.evictions = @ + 1]]

\* _evictLRU: `if (lruKey)` is false for null (empty map) and for the key ""
EvictLRU(cm) ==
    IF cm.accessOrder = <<>> THEN cm
    ELSE LET lruKey == cm.accessOrder[LruIndex(cm.accessOrder)].key
         IN  IF lruKey = "" THEN cm
             ELSE [cache       |-> MapDelete(cm.cache, lruKey),
                   accessOrder |-> MapDelete(cm.accessOrder, lruKey),
                   stats       |-> [cm.stats EXCEPT !.evictions = @ + 1]]

\* get(url): [cm, value]; value = [found, data]
CacheGet(cm, url, t) ==
    LET key == GenerateKey(url)
    IN  IF ~MapHas(cm.cache, key)
        THEN [cm |-> [cm EXCEPT !.stats.misses = @ + 1],
              value |-> [found |-> FALSE]]
        ELSE IF IsExpired(MapGet(cm.cache, key), t)
        THEN [cm |-> [cache       |-> MapDelete(cm.cache, key),
                      accessOrder |-> MapDelete(cm.accessOrder, key),
                      stats       |-> [cm.stats EXCEPT !.misses = @ + 1]],
              value |-> [found |-> FALSE]]
        ELSE [cm |-> [cache       |-> cm.cache,
                      accessOrder |-> MapSet(cm.accessOrder, key, t),
                      stats       |-> [cm.stats EXCEPT !.hits = @ + 1]],
              value |-> [found |-> TRUE, data |-> MapGet(cm.cache, key).data]]

\* set(url, data)
CacheSet(cm, url, data, t) ==
    LET key == GenerateKey(url)
        c1 == IF Len(cm.cache) >= MaxEntries /\ ~MapHas(cm.cache, key)
              THEN EvictLRU(cm) ELSE cm
    IN  [cache       |-> MapSet(c1.cache, key, [data |-> data, timestamp |-> t]),
         accessOrder |-> MapSet(c1.accessOrder, key, t),
         stats       |-> [c1.stats EXCEPT !.sets = @ + 1]]

\* has(url): [cm, value]
CacheHas(cm, url, t) ==
    LET key == GenerateKey(url)
    IN  IF ~MapHas(cm.cache, key)
        THEN [cm |-> cm, value |-> FALSE]
        ELSE IF IsExpired(MapGet(cm.cache, key), t)
        THEN [cm |-> [cm EXCEPT !.cache = MapDelete(cm.cache, key),
                                !.accessOrder = MapDelete(cm.accessOrder, key)],
              value |-> FALSE]
        ELSE [cm |-> cm, value |-> TRUE]

\* clear()
CacheClear(cm) == NewCache

\* delete(url)
CacheDelete(cm, url) ==
    LET key == GenerateKey(url)
    IN  [cm EXCEPT !.cache = MapDelete(cm.cache, key),
                   !.accessOrder = MapDelete(cm.accessOrder, key)]

\* cleanup(): [cm, value]; the expiry test is written out in the loop
CacheCleanup(cm, t) ==
    LET dead == {cm.cache[i].key : i \in {j \in 1..Len(cm.cache) :
                                            t - cm.cache[j].val.timestamp > TtlMs}}
    IN  [cm |-> [cm EXCEPT !.cache = SelectSeq(cm.cache, LAMBDA e : e.key \notin dead),
                           !.accessOrder = SelectSeq(cm.accessOrder, LAMBDA e : e.key \notin dead)],
         value |-> Cardinality(dead)]

(***************************************************************************)
(* export() / import().  The JSON text is modelled by the value it parses  *)
(* to: kind "garbage" is text JSON.parse rejects, "null" the text `null`,  *)
(* "object" an object whose `entries` is a list (entriesKind "list"), a    *)
(* number ("number") or absent ("missing"), and whose `stats` is present   *)
(* or not.  A list element is an entry object (ok) or null (~ok).          *)
(***************************************************************************)
NoBlob == [kind |-> "none", entriesKind |-> "missing", entries |-> <<>>,
           hasStats |-> FALSE, stats |-> ZeroStats]

\* export()
CacheExport(cm, t) ==
    [kind        |-> "object",
     entriesKind |-> "list",
     entries     |-> [i \in 1..Len(cm.cache) |->
                        [ok |-> TRUE, key |-> cm.cache[i].key,
                         data |-> cm.cache[i].val.data,
                         timestamp |-> cm.cache[i].val.timestamp]],
     hasStats    |-> TRUE,
     stats       |-> cm.stats]

RECURSIVE ImportEntries_Strict(_, _, _)
\* the for-loop of import() with < in place of <= in the expiry test
ImportEntries_Strict(cm, entries, t) ==
    IF entries = <<>> THEN [cm |-> cm, threw |-> FALSE]
    ELSE LET e == Head(entries)
         IN  IF ~e.ok THEN [cm |-> cm, threw |-> TRUE]
             ELSE IF t - e.timestamp < TtlMs
             THEN ImportEntries_Strict(
                    [cm EXCEPT !.cache = MapSet(cm.cache, e.key,
                                                [data |-> e.data, timestamp |-> e.timestamp]),
                               !.accessOrder = MapSet(cm.accessOrder, e.key, e.timestamp)],
                    Tail(entries), t)
             ELSE ImportEntries_Strict(cm, Tail(entries), t)

RECURSIVE ImportEntries(_, _, _)
\* the for-loop of import(): [cm, threw]; reading .timestamp of a null element throws
ImportEntries(cm, entries, t) ==
    IF entries = <<>> THEN [cm |-> cm, threw |-> FALSE]
    ELSE LET e == Head(entries)
         IN  IF ~e.ok THEN [cm |-> cm, threw |-> TRUE]
             ELSE IF t - e.timestamp <= TtlMs
             THEN ImportEntries(
                    [cm EXCEPT !.cache = MapSet(cm.cache, e.key,
                                                [data |-> e.data, timestamp |-> e.timestamp]),
                               !.accessOrder = MapSet(cm.accessOrder, e.key, e.timestamp)],
                    Tail(entries), t)
             ELSE ImportEntries(cm, Tail(entries), t)

\* import(jsonString): [cm, value]
CacheImport(cm, blob, t) ==
    IF blob.kind = "garbage" THEN [cm |-> cm, value |-> FALSE]     \* JSON.parse throws
    ELSE LET cleared == CacheClear(cm)
         IN  IF blob.kind = "null" THEN [cm |-> cleared, value |-> FALSE]   \* data.entries throws
             ELSE IF blob.entriesKind = "number"
             THEN [cm |-> cleared, value |-> FALSE]                \* not iterable
             ELSE LET r == IF blob.entriesKind = "list"
                           THEN ImportEntries(cleared, blob.entries, t)
                           ELSE [cm |-> cleared, threw |-> FALSE]
                  IN  IF r.threw THEN [cm |-> r.cm, value |-> FALSE]
                      ELSE [cm |-> IF blob.hasStats
                                   THEN [r.cm EXCEPT !.stats = blob.stats]
                                   ELSE r.cm,
                            value |-> TRUE]

(***************************************************************************)
(* Assessments (the objects analyze() builds and the cache stores).        *)
(* `error` is <<>> when the object has no error property.  `details` lists *)
(* the property names present in `keys`.                                   *)
(***************************************************************************)
NoDetails == [keys |-> {}, protocol |-> "", domain |-> "", isHTTPS |-> FALSE,
              subdomainCount |-> 0]

Threat(msg) == [msg |-> msg, n |-> 0, names |-> <<>>]
ThreatN(msg, n) == [msg |-> msg, n |-> n, names |-> <<>>]
ThreatNames(msg, names) == [msg |-> msg, n |-> 0, names |-> names]

SampleSafe == [score |-> 0, level |-> "safe", threats |-> <<>>, details |-> NoDetails,
               timestamp |-> 0, error |-> <<>>]
SampleRisky == [score |-> 55, level |-> "medium",
                threats |-> <<Threat("Non-HTTPS connection on sensitive page"),
                              Threat("Using IP address instead of domain name")>>,
                details |-> NoDetails, timestamp |-> 0, error |-> <<>>]

(***************************************************************************)
(* CONFIG (config.js).                                                     *)
(***************************************************************************)
LOW == 20
MEDIUM == 40
HIGH == 60
CRITICAL == 80

NON_HTTPS_SENSITIVE == 25
IP_ADDRESS_DOMAIN == 30
SUSPICIOUS_TLD == 15
EXCESSIVE_SUBDOMAINS == 10
HOMOGRAPH_ATTACK == 40
TYPOSQUATTING == 35
URL_AT_SYMBOL == 20
URL_SHORTENER == 10
EMBEDDED_URL == 15
SUSPICIOUS_KEYWORD == 5
URGENCY_PHRASE == 8
EXCESSIVE_EXCLAMATIONS == 10
HIDDEN_IFRAME == 25
MISLEADING_LINK == 15
OBFUSCATED_SCRIPT == 15
PASSWORD_NO_HTTPS == 35
EXTERNAL_FORM_ACTION == 30
HTTPS_LOGIN_UNKNOWN == 15
HTTP_LOGIN == 15
HTTPS_LOGIN_KNOWN == 2
CREDIT_CARD_REQUEST == 15
SSN_REQUEST == 20
AUTO_SUBMIT_FORM == 20
POPUP_WINDOW == 10
RIGHT_CLICK_DISABLED == 5
CLIPBOARD_ACCESS == 10

SUSPICIOUS_TLDS ==
    <<".tk", ".ml", ".ga", ".cf", ".gq", ".xyz", ".top", ".work",
      ".live", ".site", ".online", ".club", ".bid", ".loan">>

SUSPICIOUS_KEYWORDS ==
    <<"verify", "urgent", "suspended", "locked", "limited", "unusual",
      "confirm", "update", "secure", "expire", "immediately", "account-update",
      "security-alert", "billing-problem", "reset-password", "click-here",
      "prize", "winner", "congratulations", "claim", "free-money">>

URL_SHORTENERS ==
    <<"bit.ly", "tinyurl.com", "goo.gl", "t.co", "ow.ly", "is.gd",
      "buff.ly", "adf.ly", "bit.do", "mcaf.ee">>

MAX_LEVENSHTEIN_DISTANCE == 2
MIN_DOMAIN_LENGTH == 4
\* KEYBOARD_PROXIMITY_THRESHOLD = 0.8 as the fraction ThresholdNum / ThresholdDen
ThresholdNum == 8
ThresholdDen == 10

(***************************************************************************)
(* Detection data (_ensureDataLoaded).                                     *)
(***************************************************************************)
LegitimateDomains ==
    <<"google.com", "facebook.com", "microsoft.com", "apple.com", "amazon.com",
      "twitter.com", "instagram.com", "youtube.com", "linkedin.com", "tiktok.com",
      "zoom.us", "dropbox.com", "adobe.com", "salesforce.com", "slack.com",
      "paypal.com", "stripe.com", "square.com", "chase.com", "bankofamerica.com",
      "wellsfargo.com", "citibank.com", "venmo.com", "cashapp.com", "coinbase.com",
      "ebay.com", "etsy.com", "walmart.com", "target.com", "bestbuy.com",
      "shopify.com", "alibaba.com", "aliexpress.com",
      "github.com", "gitlab.com", "stackoverflow.com", "npmjs.com", "pypi.org",
      "docker.com", "heroku.com", "vercel.com", "netlify.com",
      "netflix.com", "spotify.com", "hulu.com", "twitch.tv", "discord.com",
      "reddit.com", "imgur.com", "medium.com",
      "wikipedia.org", "coursera.org", "udemy.com", "khanacademy.org",
      "irs.gov", "usps.com", "gov.uk", "canada.ca">>

\* the alternates of the homograph map that are ASCII: "0" (for o), "1" and "l"
\* (for i).  The other alternates are Cyrillic and Greek letters, which
\* URL.hostname never holds (a non-ASCII host is serialised as xn--...).
HomographAlternates == <<"0", "1", "l">>

\* Object.entries(_charSubstitutions): integer-like keys in ascending order, then
\* the others in insertion order
CharSubstitutions ==
    <<[fake |-> "0", real |-> "o"], [fake |-> "1", real |-> "il"],
      [fake |-> "3", real |-> "e"], [fake |-> "5", real |-> "s"],
      [fake |-> "8", real |-> "b"], [fake |-> "@", real |-> "a"],
      [fake |-> "$", real |-> "s"]>>

KeyboardProximity ==
    [q |-> "wa", w |-> "qesa", e |-> "wrds", r |-> "etfd", t |-> "rygf", y |-> "tuhg",
     u |-> "yijh", i |-> "uokj", o |-> "iplk", p |-> "ol", a |-> "qwsz", s |-> "awedzx",
     d |-> "serfxc", f |-> "drtgcv", g |-> "ftyhvb", h |-> "gyujbn", j |-> "huiknm",
     k |-> "jiolm", l |-> "kop", z |-> "asx", x |-> "zsdc", c |-> "xdfv", v |-> "cfgb",
     b |-> "vghn", n |-> "bhjm", m |-> "njk"]

(***************************************************************************)
(* String metrics.                                                         *)
(***************************************************************************)
RECURSIVE LevRow(_, _, _, _, _)
\* one row of the matrix of _calculateLevenshteinDistance, left to right:
\* prev is row i-1 (indexed j+1), acc the cells of row i computed so far.
\* (The test on Len makes the evaluator compute each cell before the next.)
LevRow(str1, c2, prev, acc, j) ==
    IF j > Len(str1) THEN acc
    ELSE LET cell == IF c2 = CharAt(str1, j)
                     THEN prev[j]
                     ELSE Min(prev[j] + 1, Min(acc[j] + 1, prev[j + 1] + 1))
             next == Append(acc, cell)
         IN  IF Len(next) = j + 1 /\ cell >= 0
             THEN LevRow(str1, c2, prev, next, j + 1)
             ELSE <<>>

RECURSIVE LevRows(_, _, _, _)
LevRows(str1, str2, prev, i) ==
    IF i > Len(str2) THEN prev
    ELSE LET row == LevRow(str1, CharAt(str2, i), prev, <<i>>, 1)
         IN  IF Len(row) = Len(str1) + 1
             THEN LevRows(str1, str2, row, i + 1)
             ELSE <<>>

\* the matrix without `matrix[0][j] = j`
CalculateLevenshteinDistance_NoFirstRow(str1, str2) ==
    LevRows(str1, str2, [j \in 1..(Len(str1) + 1) |-> 0], 1)[Len(str1) + 1]

\* _calculateLevenshteinDistance
CalculateLevenshteinDistance(str1, str2) ==
    LevRows(str1, str2, [j \in 1..(Len(str1) + 1) |-> j - 1], 1)[Len(str1) + 1]

RECURSIVE ReplaceAll(_, _, _)
\* s.replace(new RegExp(c, 'g'), r) for a literal one-character pattern c
ReplaceAll(s, c, r) ==
    IF s = "" THEN ""
    ELSE (IF CharAt(s, 1) = c THEN r ELSE CharAt(s, 1)) \o ReplaceAll(Tail(s), c, r)

\* s.replace(new RegExp(fake, 'g'), real): the pattern "$" is the end-of-input
\* anchor, which matches once, at the end, so `real` is appended
RegExpReplace(s, fake, real) ==
    IF fake = "$" THEN s \o real ELSE ReplaceAll(s, fake, real)

RECURSIVE Normalize(_, _)
Normalize(s, k) ==
    IF k > Len(CharSubstitutions) THEN s
    ELSE Normalize(RegExpReplace(s, CharSubstitutions[k].fake, CharSubstitutions[k].real),
                   k + 1)

\* _checkCharSubstitution
CheckCharSubstitution(current, legitimate) == Normalize(current, 1) = legitimate

IsAdjacent(legitChar, currChar) ==
    /\ legitChar \in DOMAIN KeyboardProximity
    /\ Includes(KeyboardProximity[legitChar], currChar)

RECURSIVE MatchScore2_AdjacentFull(_, _, _)
\* a matchScore in which an adjacent key counts as much as an equal character
MatchScore2_AdjacentFull(current, legitimate, i) ==
    IF i > Min(Len(current), Len(legitimate)) THEN 0
    ELSE (IF CharAt(current, i) = CharAt(legitimate, i) THEN 2
          ELSE IF IsAdjacent(CharAt(legitimate, i), CharAt(current, i)) THEN 2
          ELSE 0) + MatchScore2_AdjacentFull(current, legitimate, i + 1)

RECURSIVE MatchScore2(_, _, _)
\* twice the matchScore of _detectKeyboardProximityAttack over positions i..
MatchScore2(current, legitimate, i) ==
    IF i > Min(Len(current), Len(legitimate)) THEN 0
    ELSE (IF CharAt(current, i) = CharAt(legitimate, i) THEN 2
          ELSE IF IsAdjacent(CharAt(legitimate, i), CharAt(current, i)) THEN 1
          ELSE 0) + MatchScore2(current, legitimate, i + 1)

Abs(x) == IF x < 0 THEN -x ELSE x

\* _detectKeyboardProximityAttack: matchScore / maxLen > 0.8
DetectKeyboardProximityAttack(current, legitimate) ==
    IF Abs(Len(current) - Len(legitimate)) > 2 THEN FALSE
    ELSE MatchScore2(current, legitimate, 1) * ThresholdDen
            > ThresholdNum * 2 * Max(Len(current), Len(legitimate))

RECURSIVE Dedup(_)
\* s.replace(/(.)\1+/g, '$1')
Dedup(s) ==
    IF Len(s) <= 1 THEN s
    ELSE IF CharAt(s, 1) = CharAt(s, 2) THEN Dedup(Tail(s))
    ELSE CharAt(s, 1) \o Dedup(Tail(s))

\* _checkDoubledChars
CheckDoubledChars(current, legitimate) == Dedup(current) = legitimate

\* the iteration without the skip on the difference of the lengths
TypoMatches_NoLengthSkip(currentBase, legitBase) ==
    /\ legitBase # currentBase
    /\ \/ LET distance == CalculateLevenshteinDistance(legitBase, currentBase)
          IN  /\ distance > 0
              /\ distance <= MAX_LEVENSHTEIN_DISTANCE
              /\ Len(legitBase) >= MIN_DOMAIN_LENGTH
       \/ (Includes(currentBase, legitBase) /\ currentBase # legitBase)
       \/ CheckCharSubstitution(currentBase, legitBase)
       \/ DetectKeyboardProximityAttack(currentBase, legitBase)
       \/ CheckDoubledChars(currentBase, legitBase)

\* the tests of one iteration of the loop of _detectTyposquatting
TypoMatches(currentBase, legitBase) ==
    /\ legitBase # currentBase
    /\ Abs(Len(legitBase) - Len(currentBase)) <= 3
    /\ \/ LET distance == CalculateLevenshteinDistance(legitBase, currentBase)
          IN  /\ distance > 0
              /\ distance <= MAX_LEVENSHTEIN_DISTANCE
              /\ Len(legitBase) >= MIN_DOMAIN_LENGTH
       \/ (Includes(currentBase, legitBase) /\ currentBase # legitBase)
       \/ CheckCharSubstitution(currentBase, legitBase)
       \/ DetectKeyboardProximityAttack(currentBase, legitBase)
       \/ CheckDoubledChars(currentBase, legitBase)

\* _detectTyposquatting: the first matching legitimate domain, "" for null
DetectTyposquatting(domain) ==
    LET currentBase == Split(domain, ".")[1]
        hits == {k \in 1..Len(LegitimateDomains) :
                    TypoMatches(currentBase, Split(LegitimateDomains[k], ".")[1])}
    IN  IF hits = {} THEN ""
        ELSE LegitimateDomains[CHOOSE k \in hits : \A j \in hits : k <= j]

(***************************************************************************)
(* Pass 1: _analyzeURL.                                                    *)
(***************************************************************************)
IsDigit(c) == c # "" /\ Includes("0123456789", c)

\* the position after the longest run of digits of s starting at i
DigitsEnd(s, i) ==
    LET stop == {j \in i..Len(s) : ~IsDigit(CharAt(s, j))}
    IN  IF stop = {} THEN Len(s) + 1 ELSE CHOOSE j \in stop : \A k \in stop : j <= k

\* /^https?:\/\/\d+\.\d+\.\d+\.\d+/.test(url)
IpAddressPattern(url) ==
    LET start == IF StartsWith(url, "http://") THEN 8
                 ELSE IF StartsWith(url, "https://") THEN 9 ELSE 0
        e1 == DigitsEnd(url, start)
        e2 == DigitsEnd(url, e1 + 1)
        e3 == DigitsEnd(url, e2 + 1)
        e4 == DigitsEnd(url, e3 + 1)
    IN  /\ start > 0
        /\ e1 > start /\ CharAt(url, e1) = "."
        /\ e2 > e1 + 1 /\ CharAt(url, e2) = "."
        /\ e3 > e2 + 1 /\ CharAt(url, e3) = "."
        /\ e4 > e3 + 1

\* _isSensitivePath without 'login'
IsSensitivePath_NoLogin(path) ==
    Includes(path, "payment") \/ Includes(path, "checkout")

\* _isSensitivePath
IsSensitivePath(path) ==
    Includes(path, "login") \/ Includes(path, "payment") \/ Includes(path, "checkout")

\* _hasSuspiciousTLD
HasSuspiciousTLD(domain) ==
    \E k \in 1..Len(SUSPICIOUS_TLDS) : EndsWith(domain, SUSPICIOUS_TLDS[k])

\* _getSubdomainCount
GetSubdomainCount(domain) == Len(Split(domain, ".")) - 2

\* _findSuspiciousKeywords
FindSuspiciousKeywords(url) == SelectSeq(SUSPICIOUS_KEYWORDS, LAMBDA kw : Includes(url, kw))

\* _isURLShortener
IsURLShortener(domain) ==
    \E k \in 1..Len(URL_SHORTENERS) : Includes(domain, URL_SHORTENERS[k])

\* _hasEmbeddedURL
HasEmbeddedURL(path) == Includes(path, "http")

\* _detectHomographAttack
DetectHomographAttack(domain) ==
    \/ Includes(domain, "xn--")
    \/ \E k \in 1..Len(HomographAlternates) : Includes(domain, HomographAlternates[k])

EmptyAnalysis == [score |-> 0, threats |-> <<>>, details |-> NoDetails, threw |-> FALSE]

\* the catch block of a pass: the error is logged and `analysis` is returned as it is
Caught(a) == [a EXCEPT !.threw = TRUE]

\* a rule that pushes its threat twice
Rule_Twice(a, cond, w, threat) ==
    IF cond THEN [a EXCEPT !.score = @ + w, !.threats = Append(Append(@, threat), threat)]
    ELSE a

\* `if (cond) { analysis.score += w; analysis.threats.push(threat) }`
Rule(a, cond, w, threat) ==
    IF cond THEN [a EXCEPT !.score = @ + w, !.threats = Append(@, threat)] ELSE a

\* _analyzeURL, computed
ComputeURLAnalysis(url) ==
    IF ~UrlParses(url) THEN Caught(EmptyAnalysis)       \* new URL(url) throws
    ELSE LET urlObj == ParseURL(url)
             domain == ToLowerCase(urlObj.hostname)
             path == ToLowerCase(urlObj.pathname)
             fullURL == ToLowerCase(url)
             subdomainCount == GetSubdomainCount(domain)
             keywords == FindSuspiciousKeywords(fullURL)
             typoTarget == DetectTyposquatting(domain)
             a1 == Rule(EmptyAnalysis,
                        urlObj.protocol # "https:" /\ IsSensitivePath(path),
                        NON_HTTPS_SENSITIVE, Threat("Non-HTTPS connection on sensitive page"))
             a2 == Rule(a1, IpAddressPattern(url),
                        IP_ADDRESS_DOMAIN, Threat("Using IP address instead of domain name"))
             a3 == Rule(a2, HasSuspiciousTLD(domain),
                        SUSPICIOUS_TLD, Threat("Suspicious top-level domain"))
             a4 == Rule(a3, subdomainCount > 3,
                        EXCESSIVE_SUBDOMAINS, Threat("Excessive subdomains detected"))
             a5 == Rule(a4, Len(keywords) > 0,
                        Len(keywords) * SUSPICIOUS_KEYWORD,
                        ThreatNames("Suspicious keywords",
                                    SubSeq(keywords, 1, Min(3, Len(keywords)))))
             a6 == Rule(a5, DetectHomographAttack(domain),
                        HOMOGRAPH_ATTACK,
                        Threat("Possible homograph attack (lookalike characters)"))
             a7 == Rule(a6, typoTarget # "",
                        TYPOSQUATTING,
                        ThreatNames("Possible typosquatting: similar to", <<typoTarget>>))
             a8 == Rule(a7, Includes(fullURL, "@"),
                        URL_AT_SYMBOL, Threat("URL contains @ symbol (possible redirect)"))
             a9 == Rule(a8, IsURLShortener(domain),
                        URL_SHORTENER, Threat("URL shortener detected"))
             a10 == Rule(a9, HasEmbeddedURL(path),
                         EMBEDDED_URL, Threat("Embedded URL in path (redirect chain)"))
         IN  [a10 EXCEPT !.details =
                 [keys |-> {"protocol", "domain", "isHTTPS", "subdomainCount"},
                  protocol |-> urlObj.protocol, domain |-> domain,
                  isHTTPS |-> urlObj.protocol = "https:",
                  subdomainCount |-> subdomainCount]]

\* _analyzeURL of the model's URLs, tabulated once
URLAnalysisTable == [u \in AllUrls |-> ComputeURLAnalysis(u)]

\* _analyzeURL
AnalyzeURL(url) == memo.urlAnalysis[url]

(***************************************************************************)
(* Documents.  A document is described by what the passes read from it:    *)
(* the number of urgency phrases found in the body text, the number of     *)
(* exclamation marks, of hidden iframes, of misleading links and of        *)
(* obfuscated scripts, its forms (the classification of their inputs and   *)
(* the action URL), and the four markup patterns of the behaviour pass.    *)
(* `broken` names a DOM method the object lacks, so that calling it        *)
(* throws: "querySelectorAll" (on the document) or "hasAttribute" (on its  *)
(* body); "none" for a real DOM document.                                  *)
(***************************************************************************)
LoginForm == [hasPassword |-> TRUE, hasEmail |-> TRUE, hasCreditCard |-> FALSE,
              hasSSN |-> FALSE, action |-> ""]

DocBenign ==
    [urgencyMatches |-> 0, exclamationCount |-> 0, hiddenIframes |-> 0,
     misleadingLinks |-> 0, obfuscatedScripts |-> 0, forms |-> <<>>,
     submitCall |-> FALSE, windowOpenCall |-> FALSE, oncontextmenu |-> FALSE,
     clipboardRef |-> FALSE, broken |-> "none"]

DocLogin ==
    [urgencyMatches |-> 2, exclamationCount |-> 11, hiddenIframes |-> 1,
     misleadingLinks |-> 0, obfuscatedScripts |-> 1, forms |-> <<LoginForm>>,
     submitCall |-> TRUE, windowOpenCall |-> FALSE, oncontextmenu |-> TRUE,
     clipboardRef |-> TRUE, broken |-> "none"]

DocNoQuerySelector == [DocLogin EXCEPT !.broken = "querySelectorAll"]
DocNoHasAttribute == [DocLogin EXCEPT !.broken = "hasAttribute"]

DocPool == {DocBenign, DocLogin, DocNoQuerySelector, DocNoHasAttribute}

(***************************************************************************)
(* Pass 2: _analyzeContent.                                                *)
(***************************************************************************)
AnalyzeContent(doc) ==
    LET a1 == Rule(EmptyAnalysis, doc.urgencyMatches > 0,
                   doc.urgencyMatches * URGENCY_PHRASE,
                   ThreatN("Urgency tactics: phrases", doc.urgencyMatches))
        a2 == Rule(a1, doc.exclamationCount > 10,
                   EXCESSIVE_EXCLAMATIONS, Threat("Excessive exclamation marks"))
        a3 == Rule(a2, doc.hiddenIframes > 0,
                   doc.hiddenIframes * HIDDEN_IFRAME,
                   ThreatN("hidden iframe(s) detected", doc.hiddenIframes))
        a4 == Rule(a3, doc.misleadingLinks > 0,
                   doc.misleadingLinks * MISLEADING_LINK,
                   ThreatN("misleading link(s)", doc.misleadingLinks))
        a5 == Rule(a4, doc.obfuscatedScripts > 0,
                   doc.obfuscatedScripts * OBFUSCATED_SCRIPT,
                   ThreatN("obfuscated script(s)", doc.obfuscatedScripts))
    IN  IF doc.broken = "querySelectorAll"
        THEN Caught(a2)          \* _findHiddenIframes: doc.querySelectorAll throws
        ELSE a5

(***************************************************************************)
(* Pass 3: _analyzeForms / _analyzeForm.                                   *)
(***************************************************************************)
IsKnownDomain(hostname) ==
    \E k \in 1..Len(LegitimateDomains) : Includes(hostname, LegitimateDomains[k])

\* _analyzeForm
AnalyzeForm(form, urlObj) ==
    LET isExternalAction == form.action # "" /\ ~Includes(form.action, urlObj.hostname)
        r1 == Rule(EmptyAnalysis, form.hasPassword /\ urlObj.protocol # "https:",
                   PASSWORD_NO_HTTPS, Threat("Password field on non-HTTPS page"))
        r2 == Rule(r1, isExternalAction
                        /\ (form.hasPassword \/ form.hasEmail \/ form.hasCreditCard),
                   EXTERNAL_FORM_ACTION, Threat("Sensitive form submits to external domain"))
        r3 == IF form.hasEmail /\ form.hasPassword
              THEN IF urlObj.protocol = "https:" /\ IsKnownDomain(urlObj.hostname)
                   THEN [r2 EXCEPT !.score = @ + HTTPS_LOGIN_KNOWN]
                   ELSE IF urlObj.protocol = "https:"
                   THEN [r2 EXCEPT !.score = @ + HTTPS_LOGIN_UNKNOWN]
                   ELSE Rule(r2, TRUE, HTTP_LOGIN, Threat("Login form on non-HTTPS page"))
              ELSE r2
        r4 == Rule(r3, form.hasCreditCard,
                   CREDIT_CARD_REQUEST, Threat("Credit card information requested"))
        r5 == Rule(r4, form.hasSSN,
                   SSN_REQUEST, Threat("Social Security Number requested"))
    IN  r5

RECURSIVE FormsLoop(_, _, _)
\* the loop of _analyzeForms
FormsLoop(a, forms, urlObj) ==
    IF forms = <<>> THEN a
    ELSE LET formData == AnalyzeForm(Head(forms), urlObj)
         IN  FormsLoop([a EXCEPT !.score = @ + formData.score,
                                 !.threats = @ \o formData.threats],
                       Tail(forms), urlObj)

\* _analyzeForms
AnalyzeForms(doc, url) ==
    IF doc.broken = "querySelectorAll" THEN Caught(EmptyAnalysis)
    ELSE IF memo.parsed[url] = Null THEN Caught(EmptyAnalysis)   \* new URL(url) throws
    ELSE FormsLoop(EmptyAnalysis, doc.forms, memo.parsed[url])

(***************************************************************************)
(* Pass 4: _analyzeBehavior.                                               *)
(***************************************************************************)
AnalyzeBehavior(doc) ==
    LET a1 == Rule(EmptyAnalysis, doc.submitCall,
                   AUTO_SUBMIT_FORM, Threat("Auto-submitting form detected"))
        a2 == Rule(a1, doc.windowOpenCall,
                   POPUP_WINDOW, Threat("Popup window code detected"))
        a3 == Rule(a2, doc.oncontextmenu,
                   RIGHT_CLICK_DISABLED, Threat("Right-click disabled"))
        a4 == Rule(a3, doc.clipboardRef,
                   CLIPBOARD_ACCESS, Threat("Clipboard access detected"))
    IN  IF doc.broken = "hasAttribute"
        THEN Caught(a2)          \* doc.body.hasAttribute throws
        ELSE a4

(***************************************************************************)
(* analyze().                                                              *)
(***************************************************************************)
\* _getRiskLevel with > in place of >=
GetRiskLevel_Strict(score) ==
    IF score > CRITICAL THEN "critical"
    ELSE IF score > HIGH THEN "high"
    ELSE IF score > MEDIUM THEN "medium"
    ELSE IF score > LOW THEN "low"
    ELSE "safe"

\* _getRiskLevel
GetRiskLevel(score) ==
    IF score >= CRITICAL THEN "critical"
    ELSE IF score >= HIGH THEN "high"
    ELSE IF score >= MEDIUM THEN "medium"
    ELSE IF score >= LOW THEN "low"
    ELSE "safe"

\* _mergeAnalysis with the score capped at 100
MergeAnalysis_Clamped(res, analysis) ==
    [res EXCEPT !.score = Min(100, @ + analysis.score),
                !.threats = @ \o analysis.threats]

\* _mergeAnalysis
MergeAnalysis(res, analysis) ==
    [res EXCEPT !.score = @ + analysis.score,
                !.threats = IF Len(analysis.threats) > 0 THEN @ \o analysis.threats ELSE @]

\* _createSafeResult
CreateSafeResult(t) ==
    [score |-> 0, level |-> "safe", threats |-> <<>>, details |-> NoDetails,
     timestamp |-> t, error |-> <<"Invalid input">>]

\* the object `results` of analyze() as created
NewResults(t) ==
    [score |-> 0, level |-> "safe", threats |-> <<>>, details |-> NoDetails,
     timestamp |-> t, error |-> <<>>]

\* An argument of analyze(): a JavaScript value by its type; s is the text of a string
StringArg(s) == [type |-> "string", s |-> s]
OtherArg(type) == [type |-> type, s |-> ""]

InvalidArgs ==
    {StringArg(""), OtherArg("null"), OtherArg("undefined"), OtherArg("number"),
     OtherArg("object")}

\* the non-empty strings analyze() is called with
ValidArgs == {StringArg(s) : s \in EngineUrls}

\* the validation without the `!url` test
IsValidInput_TypeOnly(url) == url.type = "string"

\* the negation of `!url || typeof url !== 'string'` (the number and the object
\* are truthy ones; they fail the typeof test)
IsValidInput(url) == url.type = "string" /\ url.s # ""

\* the analyses of the passes that run for (url, doc), in the order they are merged
RunPasses(url, doc) ==
    IF doc = Null
    THEN <<AnalyzeURL(url)>>
    ELSE <<AnalyzeURL(url), AnalyzeContent(doc), AnalyzeForms(doc, url), AnalyzeBehavior(doc)>>

RECURSIVE MergeAll(_, _)
MergeAll(res, analyses) ==
    IF analyses = <<>> THEN res
    ELSE MergeAll(MergeAnalysis(res, Head(analyses)), Tail(analyses))

(***************************************************************************)
(* The cache driven directly through its public methods.                   *)
(***************************************************************************)
DataPool == {SampleSafe, SampleRisky}

ForeignKeys == <<"http://f1.com/", "http://f2.com/", "http://f3.com/", "http://f4.com/">>

NullEntry == [ok |-> FALSE, key |-> "", data |-> SampleSafe, timestamp |-> 0]
LiveEntry(i, t) == [ok |-> TRUE, key |-> ForeignKeys[i], data |-> SampleRisky, timestamp |-> t]

GarbageBlob == [NoBlob EXCEPT !.kind = "garbage"]
NullBlob == [NoBlob EXCEPT !.kind = "null"]
NumberEntriesBlob == [NoBlob EXCEPT !.kind = "object", !.entriesKind = "number"]
\* a list whose second element is null
BrokenListBlob(t) ==
    [NoBlob EXCEPT !.kind = "object", !.entriesKind = "list",
                   !.entries = <<LiveEntry(1, t), NullEntry>>]
\* a snapshot written by a manager with a larger maxEntries
ForeignBlob(t) ==
    [NoBlob EXCEPT !.kind = "object", !.entriesKind = "list",
                   !.entries = [i \in 1..(MaxEntries + 1) |-> LiveEntry(i, t)]]

ImportBlobs(t) ==
    {GarbageBlob, NullBlob, NumberEntriesBlob, BrokenListBlob(t), ForeignBlob(t)}
        \cup (IF exported.kind = "none" THEN {} ELSE {exported})

Manager == [cache |-> cache, accessOrder |-> accessOrder, stats |-> stats]

\* The history of accesses after an operation that left the entries newCache and,
\* when touched, wrote or successfully read key: the keys still stored, least
\* recently accessed first (keys an import stored follow in the order it stored them).
Accessed(rec, newCache, key, touched) ==
    LET Kept(k) == MapHas(newCache, k) /\ ~(touched /\ k = key)
        kept == SelectSeq(rec, Kept)
        first == IF touched /\ MapHas(newCache, key) THEN Append(kept, key) ELSE kept
        IsNew(e) == \A i \in 1..Len(first) : first[i] # e.key
        others == SelectSeq(newCache, IsNew)
    IN  first \o [i \in 1..Len(others) |-> others[i].key]

Install(cm, key, touched) ==
    /\ cache' = cm.cache
    /\ accessOrder' = cm.accessOrder
    /\ stats' = cm.stats
    /\ recency' = Accessed(recency, cm.cache, key, touched)

Op(name, url, ok, data, n) == [op |-> name, url |-> url, ok |-> ok, data |-> data, n |-> n]

Idle == pc = "idle" /\ nops < MaxOps

\* the clock advances between operations
Tick ==
    /\ now < MaxTime
    /\ now' = now + 1
    /\ last' = Op("tick", "", TRUE, Null, 0)
    /\ UNCHANGED <<cacheVars, exported, engineVars, nops, recency, memo, probe>>

Get(url) ==
    /\ Idle
    /\ LET r == CacheGet(Manager, url, now)
       IN  /\ Install(r.cm, GenerateKey(url), r.value.found)
           /\ last' = Op("get", url, r.value.found,
                         IF r.value.found THEN r.value.data ELSE Null, 0)
    /\ nops' = nops + 1
    /\ UNCHANGED <<now, exported, engineVars, memo, probe>>

Set(url, data) ==
    /\ Idle
    /\ Install(CacheSet(Manager, url, data, now), GenerateKey(url), TRUE)
    /\ last' = Op("set", url, TRUE, data, 0)
    /\ nops' = nops + 1
    /\ UNCHANGED <<now, exported, engineVars, memo, probe>>

Has(url) ==
    /\ Idle
    /\ LET r == CacheHas(Manager, url, now)
       IN  /\ Install(r.cm, GenerateKey(url), FALSE)
           /\ last' = Op("has", url, r.value, Null, 0)
    /\ nops' = nops + 1
    /\ UNCHANGED <<now, exported, engineVars, memo, probe>>

Delete(url) ==
    /\ Idle
    /\ Install(CacheDelete(Manager, url), GenerateKey(url), FALSE)
    /\ last' = Op("delete", url, TRUE, Null, 0)
    /\ nops' = nops + 1
    /\ UNCHANGED <<now, exported, engineVars, memo, probe>>

Cleanup ==
    /\ Idle
    /\ LET r == CacheCleanup(Manager, now)
       IN  /\ Install(r.cm, "", FALSE)
           /\ last' = Op("cleanup", "", TRUE, Null, r.value)
    /\ nops' = nops + 1
    /\ UNCHANGED <<now, exported, engineVars, memo, probe>>

Clear ==
    /\ Idle
    /\ Install(CacheClear(Manager), "", FALSE)
    /\ last' = Op("clear", "", TRUE, Null, 0)
    /\ nops' = nops + 1
    /\ UNCHANGED <<now, exported, engineVars, memo, probe>>

Export ==
    /\ Idle
    /\ exported' = CacheExport(Manager, now)
    /\ last' = Op("export", "", TRUE, Null, 0)
    /\ nops' = nops + 1
    /\ UNCHANGED <<now, cacheVars, engineVars, recency, memo, probe>>

Import(blob) ==
    /\ Idle
    /\ LET r == CacheImport(Manager, blob, now)
       IN  /\ Install(r.cm, "", FALSE)
           /\ last' = Op("import", blob.kind, r.value, blob, Len(blob.entries))
    /\ nops' = nops + 1
    /\ UNCHANGED <<now, exported, engineVars, memo, probe>>

NoCall == [url |-> Null, doc |-> Null, path |-> "none"]

\* a PhishingDetector with its CacheManager, as constructed
Constructed ==
    /\ now = 0
    /\ cache = <<>>
    /\ accessOrder = <<>>
    /\ stats = ZeroStats
    /\ exported = NoBlob
    /\ last = Op("new", "", TRUE, Null, 0)
    /\ pc = "idle"
    /\ call = NoCall
    /\ results = Null
    /\ passes = <<>>
    /\ ret = Null
    /\ nops = 0
    /\ recency = <<>>

\* the cache uses _generateKey only
KeysOnly == [key |-> KeyTable, parsed |-> <<>>, urlAnalysis |-> <<>>]

InitCache ==
    /\ Constructed
    /\ memo = KeysOnly
    /\ probe = Null

NextCache ==
    \/ Tick
    \/ \E url \in CacheUrls : Get(url)
    \/ \E url \in CacheUrls, data \in DataPool : Set(url, data)
    \/ \E url \in CacheUrls : Has(url)
    \/ \E url \in CacheUrls : Delete(url)
    \/ Cleanup
    \/ Clear

\* the cache through set, get, has, delete, cleanup and clear
SpecCache == InitCache /\ [][NextCache]_vars

NextCacheIO ==
    \/ Tick
    \/ \E url \in IOUrls : Get(url)
    \/ \E url \in IOUrls, data \in DataPool : Set(url, data)
    \/ \E url \in IOUrls : Has(url)
    \/ \E url \in IOUrls : Delete(url)
    \/ Cleanup
    \/ Clear
    \/ Export
    \/ \E blob \in ImportBlobs(now) : Import(blob)

\* the cache through all its methods, export and import included
SpecCacheIO == InitCache /\ [][NextCacheIO]_vars

NextKeys ==
    \/ Tick
    \/ \E url \in KeyUrls : Get(url)
    \/ \E url \in KeyUrls, data \in DataPool : Set(url, data)
    \/ \E url \in KeyUrls : Has(url)
    \/ \E url \in KeyUrls : Delete(url)

\* get, set, has and delete called with URLs that differ in case and fragment, and
\* with strings that are no URLs
SpecKeys == InitCache /\ [][NextKeys]_vars

(***************************************************************************)
(* The engine: analyze(url, doc) calls on one PhishingDetector with its    *)
(* cache.  A call reads the clock in has(), in get(), when `results` is    *)
(* created and in set(); the clock may advance between these reads, so the *)
(* call is a sequence of steps between which only Tick can happen.         *)
(***************************************************************************)
MaxCalls == 2     \* analyze() calls per behaviour

Call(url, doc, path) == [url |-> url, doc |-> doc, path |-> path]

\* analyze(): input validation (lines 113-116) and the cache check has(url) (line 119)
AnalyzeBegin(url, doc) ==
    /\ pc = "idle"
    /\ nops < MaxCalls
    /\ nops' = nops + 1
    /\ IF ~IsValidInput(url)
       THEN /\ call' = Call(url, doc, "invalid")
            /\ ret' = CreateSafeResult(now)
            /\ pc' = "idle"
            /\ UNCHANGED <<cacheVars, recency>>
       ELSE LET r == CacheHas(Manager, url.s, now)
            IN  /\ Install(r.cm, GenerateKey(url.s), FALSE)
                /\ call' = Call(url, doc, IF r.value THEN "hit" ELSE "miss")
                /\ ret' = Null
                /\ pc' = IF r.value THEN "hit" ELSE "miss"
    /\ results' = Null
    /\ passes' = <<>>
    /\ UNCHANGED <<now, exported, last, memo, probe>>

\* an assessment whose score grows with the clock
FreshResults_Clocked(url, doc, t) ==
    LET merged == MergeAll(NewResults(t), RunPasses(url, doc))
    IN  [merged EXCEPT !.score = merged.score + t,
                       !.level = GetRiskLevel(merged.score + t)]

\* the fresh assessment of analyze() for (url, doc) at clock reading t (lines 124-153)
FreshResults(url, doc, t) ==
    LET merged == MergeAll(NewResults(t), RunPasses(url, doc))
    IN  [merged EXCEPT !.level = GetRiskLevel(merged.score)]

\* a hit that analyses again instead of returning the entry
AnalyzeHit_Rerun ==
    /\ pc = "hit"
    /\ ret' = FreshResults(call.url.s, call.doc, now)
    /\ pc' = "idle"
    /\ UNCHANGED <<now, cacheVars, exported, last, call, results, passes, nops, recency,
                   memo, probe>>

\* analyze(): `return this.cache.get(url)` (line 121)
AnalyzeHit ==
    /\ pc = "hit"
    /\ LET r == CacheGet(Manager, call.url.s, now)
       IN  /\ Install(r.cm, GenerateKey(call.url.s), r.value.found)
           /\ ret' = IF r.value.found THEN r.value.data ELSE Null
    /\ pc' = "idle"
    /\ UNCHANGED <<now, exported, last, call, results, passes, nops, memo, probe>>

\* analyze(): `results` is created, the passes run and are merged, the level is set
\* (lines 124-153)
AnalyzePasses ==
    /\ pc = "miss"
    /\ passes' = RunPasses(call.url.s, call.doc)
    /\ results' = FreshResults(call.url.s, call.doc, now)
    /\ pc' = "store"
    /\ UNCHANGED <<now, cacheVars, exported, last, call, ret, nops, recency, memo, probe>>

\* what a call that found no entry and had no document gave back
Verdict(url, r) == [url |-> url, score |-> r.score, threats |-> r.threats,
                    level |-> r.level]

\* analyze(): `this.cache.set(url, results)` and `return results` (lines 156-165);
\* probe keeps the verdict of the first call without document that found no entry
AnalyzeStore ==
    /\ pc = "store"
    /\ Install(CacheSet(Manager, call.url.s, results, now), GenerateKey(call.url.s), TRUE)
    /\ ret' = results
    /\ pc' = "idle"
    /\ probe' = IF probe = Null /\ call.doc = Null
                THEN Verdict(call.url.s, results)
                ELSE probe
    /\ UNCHANGED <<now, exported, last, call, results, passes, nops, memo>>

\* clearCache()
ClearCache ==
    /\ pc = "idle"
    /\ cache # <<>>
    /\ Install(CacheClear(Manager), "", FALSE)
    /\ UNCHANGED <<now, exported, last, engineVars, nops, memo, probe>>

Init ==
    /\ Constructed
    /\ memo = [key |-> KeyTable, parsed |-> ParseTable, urlAnalysis |-> URLAnalysisTable]
    /\ probe = Null

Next ==
    \/ Tick
    \/ \E url \in ValidArgs, doc \in DocPool \cup {Null} : AnalyzeBegin(url, doc)
    \/ \E url \in InvalidArgs, doc \in {Null, DocLogin} : AnalyzeBegin(url, doc)
    \/ AnalyzeHit
    \/ AnalyzePasses
    \/ AnalyzeStore
    \/ ClearCache

Spec == Init /\ [][Next]_vars

(***************************************************************************)
(* _detectTyposquatting on its own: a domain is drawn and tested against   *)
(* the catalog.                                                            *)
(***************************************************************************)
Range(seq) == {seq[i] : i \in 1..Len(seq)}

Lookalikes == {"arnaz0n.com", "gooogle.com", "paypa1.com", "g00gle.com", "githubb.com",
               "example.com", "gitlub.com", "googlelogin.com"}

TypoDomains == Range(LegitimateDomains) \cup Lookalikes

\* what _detectTyposquatting and _checkDoubledChars compute for each domain
TypoTable ==
    [d \in TypoDomains |->
        [target |-> DetectTyposquatting(d), deduped |-> Dedup(Split(d, ".")[1])]]

InitTypo ==
    /\ Constructed
    /\ memo = [key |-> <<>>, parsed |-> <<>>, urlAnalysis |-> <<>>, typo |-> TypoTable]
    /\ probe \in {[domain |-> d, done |-> FALSE, target |-> "", deduped |-> ""] :
                    d \in TypoDomains}

DetectTypo ==
    /\ ~probe.done
    /\ probe' = [probe EXCEPT !.done = TRUE,
                              !.target = memo.typo[probe.domain].target,
                              !.deduped = memo.typo[probe.domain].deduped]
    /\ UNCHANGED <<now, cacheVars, exported, last, engineVars, nops, recency, memo>>

NextTypo == DetectTypo

SpecTypo == InitTypo /\ [][NextTypo]_vars

(***************************************************************************)
(* _calculateLevenshteinDistance on its own: two strings are drawn and the *)
(* distance is computed in both directions.                                *)
(***************************************************************************)
MaxLen == 3       \* the strings over Alphabet have at most MaxLen characters

Alphabet == {"a", "b"}

RECURSIVE StringsUpTo(_)
StringsUpTo(n) ==
    IF n = 0 THEN {""}
    ELSE LET shorter == StringsUpTo(n - 1)
         IN  shorter \cup {c \o t : c \in Alphabet, t \in shorter}

LevStrings ==
    StringsUpTo(MaxLen)
        \cup {"paypal", "paypa1", "amazon", "google", "gogle", "kitten", "sitting"}

LevTable ==
    [p \in LevStrings \X LevStrings |-> CalculateLevenshteinDistance(p[1], p[2])]

InitLev ==
    /\ Constructed
    /\ memo = [key |-> <<>>, parsed |-> <<>>, urlAnalysis |-> <<>>, lev |-> LevTable]
    /\ probe \in {[a |-> a, b |-> b, done |-> FALSE, ab |-> 0, ba |-> 0] :
                    a \in LevStrings, b \in LevStrings}

Distance ==
    /\ ~probe.done
    /\ probe' = [probe EXCEPT !.done = TRUE,
                              !.ab = memo.lev[<<probe.a, probe.b>>],
                              !.ba = memo.lev[<<probe.b, probe.a>>]]
    /\ UNCHANGED <<now, cacheVars, exported, last, engineVars, nops, recency, memo>>

NextLev == Distance

SpecLev == InitLev /\ [][NextLev]_vars

(***************************************************************************)
(* The memo table of _getLevenshteinDistance: a Map from `${str1}:${str2}` *)
(* to the distance, in insertion order.  LevCacheLimit stands for the 1000 *)
(* of the size test.                                                       *)
(***************************************************************************)
LevCacheLimit == 2

MemoStrings == {"a", "b", "ab"}

\* the template literal `${str1}:${str2}`
LevKey(str1, str2) == str1 \o ":" \o str2

\* _getLevenshteinDistance on the memo table m: the table afterwards, the distance
\* returned, whether it came from the table, and the key deleted (if any)
GetLevenshteinDistance(m, str1, str2) ==
    LET key == LevKey(str1, str2)
    IN  IF MapHas(m, key)
        THEN [cache |-> m, value |-> MapGet(m, key), hit |-> TRUE, evicted |-> <<>>]
        ELSE LET distance == memo.lev[<<str1, str2>>]
                 over == Len(m) > LevCacheLimit
                 kept == IF over THEN MapDelete(m, m[1].key) ELSE m
             IN  [cache |-> MapSet(kept, key, distance), value |-> distance,
                  hit |-> FALSE, evicted |-> IF over THEN <<m[1].key>> ELSE <<>>]

InitLevMemo ==
    /\ Constructed
    /\ memo = [key |-> <<>>, parsed |-> <<>>, urlAnalysis |-> <<>>, lev |-> LevTable]
    /\ probe = [cache |-> <<>>, inserted |-> <<>>, value |-> 0, hit |-> FALSE,
                evicted |-> <<>>, oldest |-> <<>>, str1 |-> "", str2 |-> "", calls |-> 0]

\* one call of _getLevenshteinDistance; `inserted` lists the keys the table holds,
\* oldest insertion first, and `oldest` is the first of them before the call
LevMemoCall(str1, str2) ==
    /\ probe.calls < MaxOps
    /\ LET r == GetLevenshteinDistance(probe.cache, str1, str2)
           left == SelectSeq(probe.inserted, LAMBDA k : <<k>> # r.evicted)
       IN  probe' = [cache |-> r.cache,
                     inserted |-> IF r.hit THEN left ELSE Append(left, LevKey(str1, str2)),
                     value |-> r.value, hit |-> r.hit, evicted |-> r.evicted,
                     oldest |-> IF probe.inserted = <<>> THEN <<>>
                                ELSE <<Head(probe.inserted)>>,
                     str1 |-> str1, str2 |-> str2, calls |-> probe.calls + 1]
    /\ UNCHANGED <<now, cacheVars, exported, last, engineVars, nops, recency, memo>>

NextLevMemo == \E str1 \in MemoStrings, str2 \in MemoStrings : LevMemoCall(str1, str2)

SpecLevMemo == InitLevMemo /\ [][NextLevMemo]_vars

(***************************************************************************)
(* _detectKeyboardProximityAttack on its own: a candidate label and a      *)
(* reference label are drawn and compared.                                 *)
(***************************************************************************)
ProxLabels ==
    {"", "a", "ap", "appl", "apple", "applw", "spplw", "spple", "aplpe", "paypal",
     "paypak", "psypak", "google", "googlr", "goo", "g00gle"}

ProxTable ==
    [p \in ProxLabels \X ProxLabels |-> DetectKeyboardProximityAttack(p[1], p[2])]

InitProx ==
    /\ Constructed
    /\ memo = [key |-> <<>>, parsed |-> <<>>, urlAnalysis |-> <<>>, prox |-> ProxTable]
    /\ probe \in {[current |-> c, legitimate |-> l, done |-> FALSE, attack |-> FALSE] :
                    c \in ProxLabels, l \in ProxLabels}

DetectProximity ==
    /\ ~probe.done
    /\ probe' = [probe EXCEPT !.done = TRUE,
                              !.attack = memo.prox[<<probe.current, probe.legitimate>>]]
    /\ UNCHANGED <<now, cacheVars, exported, last, engineVars, nops, recency, memo>>

NextProx == DetectProximity

SpecProx == InitProx /\ [][NextProx]_vars

(***************************************************************************)
(* The constructor on its own: a configuration is drawn, an engine is      *)
(* constructed with it, and the engine classifies the score of a URL on    *)
(* which the IP-address rule alone fires.  A weight is a fraction num/den, *)
(* so that a JavaScript number that is no integer can be drawn.            *)
(***************************************************************************)
ThresholdPool == {20, 50, 80}

WeightPool == {[num |-> 30, den |-> 1], [num |-> -5, den |-> 1], [num |-> 5, den |-> 2]}

ProximityPool == {[num |-> 8, den |-> 10], [num |-> 0, den |-> 10],
                  [num |-> 15, den |-> 10]}

\* the objects handed to `new PhishingDetector(config)`; Null is a missing one
ConfigPool ==
    {[RISK_THRESHOLDS |-> [LOW |-> l, MEDIUM |-> m, HIGH |-> h, CRITICAL |-> c],
      IP_WEIGHT |-> w,
      KEYBOARD_PROXIMITY_THRESHOLD |-> k] :
        l \in ThresholdPool, m \in ThresholdPool, h \in ThresholdPool,
        c \in ThresholdPool, w \in WeightPool, k \in ProximityPool}
    \cup {Null}

\* _getRiskLevel reading this.config.RISK_THRESHOLDS, for the score num/den
RiskLevelUnder(config, score) ==
    LET t == config.RISK_THRESHOLDS
    IN  IF score.num >= t.CRITICAL * score.den THEN "critical"
        ELSE IF score.num >= t.HIGH * score.den THEN "high"
        ELSE IF score.num >= t.MEDIUM * score.den THEN "medium"
        ELSE IF score.num >= t.LOW * score.den THEN "low"
        ELSE "safe"

InitConfig ==
    /\ Constructed
    /\ memo = KeysOnly
    /\ probe \in {[config |-> c, engine |-> "none", analysed |-> FALSE, level |-> ""] :
                    c \in ConfigPool}

\* new PhishingDetector(config): throws when config is missing, stores it otherwise
Construct ==
    /\ probe.engine = "none"
    /\ probe' = [probe EXCEPT !.engine = IF probe.config = Null THEN "threw"
                                          ELSE "constructed"]
    /\ UNCHANGED <<now, cacheVars, exported, last, engineVars, nops, recency, memo>>

\* analyze() on the constructed engine: the IP-address rule adds its weight and
\* the level is read off the thresholds
AnalyzeUnder ==
    /\ probe.engine = "constructed"
    /\ ~probe.analysed
    /\ probe' = [probe EXCEPT !.analysed = TRUE,
                              !.level = RiskLevelUnder(probe.config, probe.config.IP_WEIGHT)]
    /\ UNCHANGED <<now, cacheVars, exported, last, engineVars, nops, recency, memo>>

NextConfig == Construct \/ AnalyzeUnder

SpecConfig == InitConfig /\ [][NextConfig]_vars

(***************************************************************************)
(* Pre-navigation blocking: one tab, the background script's               *)
(* chrome.tabs.onUpdated listener and the warning page.  probe holds the   *)
(* tab: its URL, how far the navigation got ("loading": the listener has   *)
(* not run yet, "committed": the listener let it pass, "complete": the     *)
(* page is loaded), who started the navigation, the page loaded before,    *)
(* the bypass keys in chrome.storage.local and stats.threatsBlocked.       *)
(***************************************************************************)
NavUrls == {"http://192.168.1.1/login", "http://example.com/login", "https://free.xyz/",
            "http://1.2.3.4.xyz/login", "https://example.com/", "chrome://settings"}

\* chrome.runtime.getURL('warning.html')
WarningPage == "chrome-extension://abcdefgh/warning.html"

\* the characters of the model's URLs that encodeURIComponent escapes
Escapes == <<[c |-> "%", code |-> "%25"], [c |-> ":", code |-> "%3A"],
             [c |-> "/", code |-> "%2F"], [c |-> "?", code |-> "%3F"],
             [c |-> "=", code |-> "%3D"]>>

RECURSIVE EncodeURIComponent(_)
EncodeURIComponent(str) ==
    IF str = "" THEN ""
    ELSE LET c == CharAt(str, 1)
             hit == {k \in 1..Len(Escapes) : Escapes[k].c = c}
         IN  (IF hit = {} THEN c ELSE Escapes[CHOOSE k \in hit : TRUE].code)
                \o EncodeURIComponent(Tail(str))

RECURSIVE DecodeURIComponent(_)
DecodeURIComponent(str) ==
    IF str = "" THEN ""
    ELSE LET hit == {k \in 1..Len(Escapes) : StartsWith(str, Escapes[k].code)}
         IN  IF hit = {} THEN CharAt(str, 1) \o DecodeURIComponent(Tail(str))
             ELSE Escapes[CHOOSE k \in hit : TRUE].c
                    \o DecodeURIComponent(SubSeq(str, 4, Len(str)))

\* the listener's `chrome.runtime.getURL('warning.html') + '?url=' + encodeURIComponent(url)`
WarningUrl(url) == WarningPage \o "?url=" \o EncodeURIComponent(url)

\* warning page: `decodeURIComponent(urlParams.get('url'))`, "" when there is none
BlockedUrlOf(location) ==
    LET q == IndexOf(location, "?url=")
    IN  IF q = 0 THEN ""
        ELSE DecodeURIComponent(DecodeURIComponent(SubSeq(location, q + 5, Len(location))))

\* isInternalPage
IsInternalPage(url) ==
    \/ StartsWith(url, "chrome://")
    \/ StartsWith(url, "chrome-extension://")
    \/ StartsWith(url, "about:")
    \/ StartsWith(url, "edge://")
    \/ StartsWith(url, "file://")

\* the quickScore of shouldBlockNavigation
QuickScore(url) ==
    LET urlObj == ParseURL(url)
        domain == ToLowerCase(urlObj.hostname)
        path == ToLowerCase(urlObj.pathname)
    IN  (IF IpAddressPattern(url) THEN IP_ADDRESS_DOMAIN ELSE 0)
        + (IF HasSuspiciousTLD(domain) THEN SUSPICIOUS_TLD ELSE 0)
        + (IF urlObj.protocol # "https:"
              /\ (Includes(path, "login") \/ Includes(path, "payment"))
           THEN NON_HTTPS_SENSITIVE ELSE 0)

\* shouldBlockNavigation (ENABLE_PRE_NAVIGATION_BLOCKING is true)
ShouldBlockNavigation(url) ==
    IF IsInternalPage(url) THEN FALSE
    ELSE IF ~UrlParses(url) THEN FALSE          \* new URL(url) throws: caught
    ELSE QuickScore(url) >= HIGH

\* what the listener and the warning page compute for the model's URLs
NavTable ==
    [internal |-> [u \in NavUrls \cup {WarningUrl(v) : v \in NavUrls} \cup {"about:blank"}
                        |-> IsInternalPage(u)],
     block |-> [u \in NavUrls |-> ShouldBlockNavigation(u)],
     warning |-> [u \in NavUrls |-> WarningUrl(u)],
     blockedUrl |-> [w \in {WarningUrl(v) : v \in NavUrls} |-> BlockedUrlOf(w)]]

InitNav ==
    /\ Constructed
    /\ memo = [key |-> <<>>, parsed |-> <<>>, urlAnalysis |-> <<>>, nav |-> NavTable]
    /\ probe = [url |-> "about:blank", status |-> "complete", via |-> "user",
                prev |-> "", bypass |-> {}, threatsBlocked |-> 0, badge |-> ""]

OnWarningPage == probe.status = "complete" /\ probe.url \in DOMAIN memo.nav.blockedUrl

NavUnchanged == UNCHANGED <<now, cacheVars, exported, last, engineVars, recency, memo>>

\* the user opens a URL in the tab
Navigate(url) ==
    /\ probe.status = "complete"
    /\ nops < MaxOps
    /\ nops' = nops + 1
    /\ probe' = [probe EXCEPT !.url = url, !.status = "loading", !.via = "user",
                              !.prev = IF OnWarningPage THEN @ ELSE probe.url]
    /\ NavUnchanged

\* chrome.tabs.onUpdated listener, changeInfo.status === 'loading' (lines 161-198)
OnUpdatedLoading ==
    /\ probe.status = "loading"
    /\ IF memo.nav.internal[probe.url]
       THEN probe' = [probe EXCEPT !.status = "committed"]
       ELSE IF Includes(probe.url, WarningPage)
       THEN probe' = [probe EXCEPT !.status = "committed"]
       ELSE IF memo.nav.block[probe.url]
       THEN probe' = [probe EXCEPT !.url = memo.nav.warning[probe.url],
                                   !.status = "loading",
                                   !.badge = "critical",
                                   !.threatsBlocked = @ + 1]
       ELSE probe' = [probe EXCEPT !.status = "committed"]
    /\ UNCHANGED nops
    /\ NavUnchanged

\* the page finishes loading (changeInfo.status === 'complete')
Complete ==
    /\ probe.status = "committed"
    /\ probe' = [probe EXCEPT !.status = "complete"]
    /\ UNCHANGED nops
    /\ NavUnchanged

\* warning page: proceedAnyway with the answer the user gives to confirm()
ProceedAnyway(confirmed) ==
    /\ OnWarningPage
    /\ nops < MaxOps
    /\ nops' = nops + 1
    /\ LET blockedUrl == memo.nav.blockedUrl[probe.url]
       IN  IF confirmed /\ blockedUrl # ""
           THEN probe' = [probe EXCEPT !.bypass = @ \cup {blockedUrl},
                                       !.url = blockedUrl,
                                       !.status = "loading",
                                       !.via = "proceed"]
           ELSE probe' = probe
    /\ NavUnchanged

\* warning page: goBack
GoBack ==
    /\ OnWarningPage
    /\ nops < MaxOps
    /\ nops' = nops + 1
    /\ probe' = [probe EXCEPT !.url = IF probe.prev # "" THEN probe.prev ELSE "about:blank",
                              !.status = "loading",
                              !.via = "back"]
    /\ NavUnchanged

NextNav ==
    \/ \E url \in NavUrls : Navigate(url)
    \/ OnUpdatedLoading
    \/ Complete
    \/ \E confirmed \in BOOLEAN : ProceedAnyway(confirmed)
    \/ GoBack

SpecNav == InitNav /\ [][NextNav]_vars

\* the browser delivers the event to the listener and finishes loading a page;
\* nothing makes the user act
SpecNavLive == SpecNav /\ WF_vars(OnUpdatedLoading) /\ WF_vars(Complete)

(***************************************************************************)
(* The content script of one page: analyzePage, the warning overlay and    *)
(* the MutationObserver with its debounced re-analysis.  probe holds the   *)
(* page (its URL and document) and the script's variables; the script's    *)
(* detector uses the cache of the model.                                   *)
(***************************************************************************)
\* a page whose text changed, with no element of interest added
DocText == [DocBenign EXCEPT !.urgencyMatches = 2]

PageDocs == {DocBenign, DocText, DocLogin}

\* analyze(url, doc) in one step, the clock reading t throughout: [cm, value]
AnalyzeOnce(cm, url, doc, t) ==
    LET h == CacheHas(cm, url, t)
    IN  IF h.value
        THEN LET g == CacheGet(h.cm, url, t)
             IN  [cm |-> g.cm, value |-> IF g.value.found THEN g.value.data ELSE Null]
        ELSE LET r == FreshResults(url, doc, t)
             IN  [cm |-> CacheSet(h.cm, url, r, t), value |-> r]

\* showWarning without the test of dismissedWarnings
ShowWarning_NoMemory(p) ==
    IF p.isWarningDisplayed THEN p
    ELSE [p EXCEPT !.overlays = @ + 1, !.isWarningDisplayed = TRUE]

\* showWarning (ENABLE_SHADOW_DOM_PROTECTION is true)
ShowWarning(p) ==
    IF p.isWarningDisplayed THEN p
    ELSE IF p.url \in p.dismissedWarnings THEN p
    ELSE [p EXCEPT !.overlays = @ + 1, !.isWarningDisplayed = TRUE]

\* removeWarningOverlay: the host element, when there is one, is removed
RemoveWarningOverlay(p) ==
    [p EXCEPT !.overlays = IF @ > 0 THEN @ - 1 ELSE 0, !.isWarningDisplayed = FALSE]

\* analyzePage on the page p
AnalyzePage(p) ==
    LET r == AnalyzeOnce(Manager, p.url, p.doc, now)
        q == [p EXCEPT !.currentAnalysis = r.value, !.runs = @ + 1]
    IN  /\ Install(r.cm, GenerateKey(p.url), TRUE)
        /\ probe' = IF r.value.level \notin {"safe", "low"} THEN ShowWarning(q) ELSE q

\* shouldReanalyze: a form, iframe or script element is among the added nodes
ShouldReanalyze(old, new) ==
    \/ Len(new.forms) > Len(old.forms)
    \/ new.hiddenIframes > old.hiddenIframes
    \/ new.obfuscatedScripts > old.obfuscatedScripts

InitContent ==
    /\ Constructed
    /\ memo = [key |-> KeyTable, parsed |-> ParseTable, urlAnalysis |-> URLAnalysisTable]
    /\ probe \in {[url |-> u, doc |-> d, phase |-> "init", currentAnalysis |-> Null,
                    isWarningDisplayed |-> FALSE, overlays |-> 0,
                    dismissedWarnings |-> {}, pending |-> FALSE, runs |-> 0,
                    runsAtDismissal |-> 0] :
                        u \in PageUrls, d \in {DocBenign, DocLogin}}

ContentUnchanged == UNCHANGED <<now, exported, last, engineVars, memo>>

\* startMonitoring: the initial analysis; the observer is installed
StartMonitoring ==
    /\ probe.phase = "init"
    /\ AnalyzePage([probe EXCEPT !.phase = "monitoring"])
    /\ UNCHANGED nops
    /\ ContentUnchanged

\* the page changes its document; the MutationObserver callback arms the debounce
\* timer when shouldReanalyze holds
Mutate(doc) ==
    /\ probe.phase = "monitoring"
    /\ doc # probe.doc
    /\ nops < MaxOps
    /\ nops' = nops + 1
    /\ probe' = [probe EXCEPT !.doc = doc,
                              !.pending = @ \/ ShouldReanalyze(probe.doc, doc)]
    /\ UNCHANGED <<cacheVars, recency>>
    /\ ContentUnchanged

\* the debounce timer fires: analyzePage
DebounceFire ==
    /\ probe.phase = "monitoring"
    /\ probe.pending
    /\ AnalyzePage([probe EXCEPT !.pending = FALSE])
    /\ UNCHANGED nops
    /\ ContentUnchanged

\* the background script's ANALYZE_PAGE message: analyzePage
AnalyzeMessage ==
    /\ probe.phase = "monitoring"
    /\ nops < MaxOps
    /\ nops' = nops + 1
    /\ AnalyzePage(probe)
    /\ ContentUnchanged

\* the overlay's 'proceed' button
ProceedClick ==
    /\ probe.phase = "monitoring"
    /\ probe.overlays > 0
    /\ probe' = RemoveWarningOverlay(
                    [probe EXCEPT !.dismissedWarnings = @ \cup {probe.url},
                                  !.runsAtDismissal = probe.runs])
    /\ UNCHANGED <<cacheVars, recency, nops>>
    /\ ContentUnchanged

\* beforeunload: cleanup
Unload ==
    /\ probe.phase = "monitoring"
    /\ probe' = RemoveWarningOverlay([probe EXCEPT !.phase = "unloaded",
                                                    !.pending = FALSE])
    /\ UNCHANGED <<cacheVars, recency, nops>>
    /\ ContentUnchanged

NextContent ==
    \/ Tick
    \/ StartMonitoring
    \/ \E doc \in PageDocs : Mutate(doc)
    \/ DebounceFire
    \/ AnalyzeMessage
    \/ ProceedClick
    \/ Unload

SpecContent == InitContent /\ [][NextContent]_vars

(***************************************************************************)
(* The statistics of the engine's cache: analyze() is called with valid    *)
(* URLs and no document, the clock advancing between the calls; probe      *)
(* counts the calls (n) and those answered from the cache (h), and keeps   *)
(* the URL and the returned value of the last call.                        *)
(***************************************************************************)
\* getStats: the counters and the number of entries
GetStats(cm) ==
    [hits |-> cm.stats.hits, misses |-> cm.stats.misses, evictions |-> cm.stats.evictions,
     sets |-> cm.stats.sets, size |-> Len(cm.cache)]

\* getCacheStats (the engine has a cache)
GetCacheStats == GetStats(Manager)

InitStats ==
    /\ Constructed
    /\ memo = [key |-> KeyTable, parsed |-> ParseTable, urlAnalysis |-> URLAnalysisTable]
    /\ probe = [n |-> 0, h |-> 0, url |-> "", served |-> FALSE, value |-> Null]

\* one analyze(url) call, from the cache check to the return
AnalyzeCounted(url) ==
    /\ probe.n < MaxOps
    /\ LET served == CacheHas(Manager, url, now).value
           r == AnalyzeOnce(Manager, url, Null, now)
       IN  /\ Install(r.cm, GenerateKey(url), TRUE)
           /\ probe' = [n |-> probe.n + 1, h |-> probe.h + (IF served THEN 1 ELSE 0),
                        url |-> url, served |-> served, value |-> r.value]
    /\ UNCHANGED <<now, exported, last, engineVars, nops, memo>>

NextStats ==
    \/ Tick
    \/ \E url \in CountedUrls : AnalyzeCounted(url)

SpecStats == InitStats /\ [][NextStats]_vars

(***************************************************************************)
(* The normalization of _checkCharSubstitution on its own: a label is      *)
(* drawn and normalized.                                                   *)
(***************************************************************************)
LabelChars == {"a", "0", "1", "$"}

RECURSIVE LabelsUpTo(_)
LabelsUpTo(n) ==
    IF n = 0 THEN {""}
    ELSE LET shorter == LabelsUpTo(n - 1)
         IN  shorter \cup {c \o t : c \in LabelChars, t \in shorter}

Labels == LabelsUpTo(MaxLen) \cup {"paypal", "paypa1", "g00gle", "arnaz0n", "p@yp@l"}

NormalizeTable == [l \in Labels |-> Normalize(l, 1)]

InitNorm ==
    /\ Constructed
    /\ memo = [key |-> <<>>, parsed |-> <<>>, urlAnalysis |-> <<>>,
               normalized |-> NormalizeTable]
    /\ probe \in {[label |-> l, done |-> FALSE, normalized |-> ""] : l \in Labels}

NormalizeLabel ==
    /\ ~probe.done
    /\ probe' = [probe EXCEPT !.done = TRUE,
                              !.normalized = memo.normalized[probe.label]]
    /\ UNCHANGED <<now, cacheVars, exported, last, engineVars, nops, recency, memo>>

NextNorm == NormalizeLabel

SpecNorm == InitNorm /\ [][NextNorm]_vars

(***************************************************************************)
(* _analyzeURL on its own: a URL is drawn and analysed.                    *)
(***************************************************************************)
RuleHosts == {"example.com", "192.168.1.1", "free.xyz", "a.b.c.d.example.com", "bit.ly",
              "paypa1.com", "xn--pple-43d.com"}

RulePaths == {"/", "/login", "/verify-account-update-secure-confirm",
              "/r/http://x.io/a@b"}

RuleUrls == {scheme \o "://" \o host \o path :
                scheme \in {"http", "https"}, host \in RuleHosts, path \in RulePaths}

RuleTable == [u \in RuleUrls |-> ComputeURLAnalysis(u)]

InitUrl ==
    /\ Constructed
    /\ memo = [key |-> <<>>, parsed |-> <<>>, urlAnalysis |-> RuleTable]
    /\ probe \in {[url |-> u, done |-> FALSE, analysis |-> EmptyAnalysis] : u \in RuleUrls}

AnalyzeUrlOnly ==
    /\ ~probe.done
    /\ probe' = [probe EXCEPT !.done = TRUE, !.analysis = AnalyzeURL(probe.url)]
    /\ UNCHANGED <<now, cacheVars, exported, last, engineVars, nops, recency, memo>>

NextUrl == AnalyzeUrlOnly

SpecUrl == InitUrl /\ [][NextUrl]_vars

(***************************************************************************)
(* The warning page: analyzeBlockedUrl builds a new PhishingDetector and   *)
(* calls _analyzeURL on it directly, so _ensureDataLoaded has not run and  *)
(* _homographs and _legitimateDomains are null.                            *)
(***************************************************************************)
WarnHosts == {"1.2.3.4.xyz", "2.3.4.5.xyz", "2.3.4.5.top", "xn--2.3.4.5.xyz"}

WarnPaths == {"/login", "/payment", "/login@x", "/login/http", "/login-verify", "/checkout",
              "/"}

WarnUrls == {scheme \o "://" \o host \o path :
                scheme \in {"http", "https"}, host \in WarnHosts, path \in WarnPaths}

\* _analyzeURL on a detector whose data is not loaded: Object.entries(null) in
\* _detectHomographAttack throws unless the punycode test returned first, and the
\* loop over null in _detectTyposquatting throws; the catch block returns what the
\* rules before the throw added
ComputeURLAnalysisUnloaded(url) ==
    IF ~UrlParses(url) THEN Caught(EmptyAnalysis)
    ELSE LET urlObj == ParseURL(url)
             domain == ToLowerCase(urlObj.hostname)
             path == ToLowerCase(urlObj.pathname)
             fullURL == ToLowerCase(url)
             keywords == FindSuspiciousKeywords(fullURL)
             a1 == Rule(EmptyAnalysis,
                        urlObj.protocol # "https:" /\ IsSensitivePath(path),
                        NON_HTTPS_SENSITIVE, Threat("Non-HTTPS connection on sensitive page"))
             a2 == Rule(a1, IpAddressPattern(url),
                        IP_ADDRESS_DOMAIN, Threat("Using IP address instead of domain name"))
             a3 == Rule(a2, HasSuspiciousTLD(domain),
                        SUSPICIOUS_TLD, Threat("Suspicious top-level domain"))
             a4 == Rule(a3, GetSubdomainCount(domain) > 3,
                        EXCESSIVE_SUBDOMAINS, Threat("Excessive subdomains detected"))
             a5 == Rule(a4, Len(keywords) > 0,
                        Len(keywords) * SUSPICIOUS_KEYWORD,
                        ThreatNames("Suspicious keywords",
                                    SubSeq(keywords, 1, Min(3, Len(keywords)))))
         IN  IF Includes(domain, "xn--")
             THEN Caught(Rule(a5, TRUE, HOMOGRAPH_ATTACK,
                              Threat("Possible homograph attack (lookalike characters)")))
             ELSE Caught(a5)

\* analysisData of analyzeBlockedUrl
AnalysisData(urlAnalysis) ==
    [score |-> urlAnalysis.score, level |-> GetRiskLevel(urlAnalysis.score),
     threats |-> urlAnalysis.threats]

InitWarn ==
    /\ Constructed
    /\ memo = [key |-> [u \in WarnUrls |-> ComputeKey(u)], parsed |-> <<>>,
               urlAnalysis |-> [u \in WarnUrls |-> ComputeURLAnalysis(u)],
               unloaded |-> [u \in WarnUrls |-> ComputeURLAnalysisUnloaded(u)],
               block |-> [u \in WarnUrls |-> ShouldBlockNavigation(u)]]
    /\ probe \in {[blockedUrl |-> u, done |-> FALSE, analysisData |-> Null] : u \in WarnUrls}

\* analyzeBlockedUrl (PhishingDetector and CONFIG are defined on the page)
AnalyzeBlockedUrl ==
    /\ ~probe.done
    /\ probe' = [probe EXCEPT !.done = TRUE,
                              !.analysisData = AnalysisData(memo.unloaded[probe.blockedUrl])]
    /\ UNCHANGED <<now, cacheVars, exported, last, engineVars, nops, recency, memo>>

NextWarn == AnalyzeBlockedUrl

SpecWarn == InitWarn /\ [][NextWarn]_vars

(***************************************************************************)
(* The background worker after a page load: the 'complete' phase of the    *)
(* tabs.onUpdated listener, sendMessageWithTimeout, the content script's   *)
(* answer to ANALYZE_PAGE and the ANALYSIS_COMPLETE message it sends, in   *)
(* any interleaving.  probe holds pendingRequests (a Map from the request  *)
(* key to the time it was set), the requests sent (id is the number of the *)
(* 'complete' event; `settled` tells that the promise of                   *)
(* sendMessageWithTimeout was resolved or rejected), the delete timers     *)
(* scheduled, the ANALYSIS_COMPLETE messages in flight, stats and the      *)
(* badge of each tab; `analysed` counts the analyses the content script    *)
(* ran for an ANALYZE_PAGE request.                                        *)
(***************************************************************************)
Tabs == {1, 2}

LoadUrls == {"http://192.168.1.1/login", "chrome://settings"}

Outcomes == {"result", "null", "error"}

\* the page loads observed
MaxLoads == 2

\* the template literal `${tabId}-${tab.url}`
RequestKey(tabId, url) == ToString(tabId) \o "-" \o url

\* updateStatsFromAnalysis
UpdateStatsFromAnalysis(s, level, t) ==
    [sitesChecked |-> s.sitesChecked + 1,
     threatsBlocked |-> s.threatsBlocked + (IF level \in {"high", "critical"} THEN 1 ELSE 0),
     lastUpdate |-> t]

\* updateBadge followed by updateStatsFromAnalysis, on the worker's state p
\* (the awaits inside updateBadge let other handlers run in between; they change
\* neither the badge of this tab's analysis nor what is added to stats)
BadgeAndStats(p, tabId, level, t) ==
    [p EXCEPT !.badge[tabId] = level,
              !.stats = UpdateStatsFromAnalysis(p.stats, level, t)]

\* a 'complete' phase that does not look into pendingRequests
OnCompleted_NoDedup(p, tabId, url, t) ==
    LET q == [p EXCEPT !.events = @ + 1]
        key == RequestKey(tabId, url)
    IN  IF IsInternalPage(url) \/ Includes(url, WarningPage) THEN q
        ELSE [q EXCEPT !.pending = MapSet(@, key, t),
                       !.requests = @ \cup {[id |-> q.events, tabId |-> tabId, url |-> url,
                                             phase |-> "sent", settled |-> FALSE,
                                             level |-> ""]}]

\* the listener for changeInfo.status = 'complete', up to the message it sends
OnCompleted(p, tabId, url, t) ==
    LET q == [p EXCEPT !.events = @ + 1]
        key == RequestKey(tabId, url)
    IN  IF IsInternalPage(url) \/ Includes(url, WarningPage) THEN q
        ELSE IF MapHas(p.pending, key) THEN q
        ELSE [q EXCEPT !.pending = MapSet(@, key, t),
                       !.requests = @ \cup {[id |-> q.events, tabId |-> tabId, url |-> url,
                                             phase |-> "sent", settled |-> FALSE,
                                             level |-> ""]}]

\* the listener after the await: the response is used when there is one, and the
\* finally block schedules the delete
Settle(p, r, response, t) ==
    LET q == IF response # "" THEN BadgeAndStats(p, r.tabId, response, t) ELSE p
    IN  [q EXCEPT !.requests = (@ \ {r}) \cup {[r EXCEPT !.settled = TRUE]},
                  !.timers = @ \cup {[id |-> r.id, key |-> RequestKey(r.tabId, r.url)]}]

InitPending ==
    /\ Constructed
    /\ memo = [key |-> [u \in LoadUrls |-> ComputeKey(u)],
               parsed |-> [u \in LoadUrls |-> IF UrlParses(u) THEN ParseURL(u) ELSE Null],
               urlAnalysis |-> [u \in LoadUrls |-> ComputeURLAnalysis(u)]]
    /\ probe = [pending |-> <<>>, requests |-> {}, timers |-> {}, inbox |-> {},
                stats |-> [sitesChecked |-> 0, threatsBlocked |-> 0, lastUpdate |-> 0],
                badge |-> [t \in Tabs |-> ""], events |-> 0, analysed |-> 0]

PendingUnchanged == UNCHANGED <<now, cacheVars, exported, last, engineVars, nops, recency, memo>>

\* tabs.onUpdated fires with status 'complete' for tab tabId showing url
TabCompleted(tabId, url) ==
    /\ probe.events < MaxLoads
    /\ probe' = OnCompleted(probe, tabId, url, now)
    /\ PendingUnchanged

\* the content script's end of ANALYZE_PAGE for request id: analyzePage runs, sends
\* ANALYSIS_COMPLETE and answers with the result ("result"); the detector is not
\* available and the answer is null ("null"); no script listens and lastError is
\* set ("error").  A callback that is never called is a request this step never
\* happens to
ContentAnswers(id, outcome) ==
    /\ \E r \in probe.requests :
        /\ r.id = id
        /\ r.phase = "sent"
        /\ LET level == FreshResults(r.url, DocBenign, now).level
               s == [r EXCEPT !.phase = "answered",
                              !.level = IF outcome = "result" THEN level ELSE ""]
           IN  probe' = [probe EXCEPT
                            !.requests = (@ \ {r}) \cup {s},
                            !.inbox = IF outcome = "result"
                                      THEN @ \cup {[id |-> id, tabId |-> r.tabId,
                                                    level |-> level]}
                                      ELSE @,
                            !.analysed = IF outcome = "result" THEN @ + 1 ELSE @]
    /\ PendingUnchanged

\* the callback of chrome.tabs.sendMessage runs before the timeout
ResponseArrives(id) ==
    /\ \E r \in probe.requests :
        /\ r.id = id
        /\ r.phase = "answered"
        /\ ~r.settled
        /\ probe' = Settle(probe, r, r.level, now)
    /\ PendingUnchanged

\* the timer of sendMessageWithTimeout rejects the promise
MessageTimeout(id) ==
    /\ \E r \in probe.requests :
        /\ r.id = id
        /\ ~r.settled
        /\ probe' = Settle(probe, r, "", now)
    /\ PendingUnchanged

\* onMessage receives ANALYSIS_COMPLETE: handleAnalysisComplete
HandleAnalysisComplete(id) ==
    /\ \E m \in probe.inbox :
        /\ m.id = id
        /\ probe' = [BadgeAndStats(probe, m.tabId, m.level, now) EXCEPT !.inbox = @ \ {m}]
    /\ PendingUnchanged

\* the timer of the finally block runs `pendingRequests.delete(requestKey)`
DeleteTimerFires(id) ==
    /\ \E x \in probe.timers :
        /\ x.id = id
        /\ probe' = [probe EXCEPT !.pending = MapDelete(@, x.key), !.timers = @ \ {x}]
    /\ PendingUnchanged

\* the clock stands still here: the times stored are never read by this code
NextPending ==
    \/ \E tabId \in Tabs, url \in LoadUrls : TabCompleted(tabId, url)
    \/ \E id \in 1..MaxLoads, outcome \in Outcomes : ContentAnswers(id, outcome)
    \/ \E id \in 1..MaxLoads : ResponseArrives(id)
    \/ \E id \in 1..MaxLoads : MessageTimeout(id)
    \/ \E id \in 1..MaxLoads : HandleAnalysisComplete(id)
    \/ \E id \in 1..MaxLoads : DeleteTimerFires(id)

SpecPending == InitPending /\ [][NextPending]_vars

\* the timers of the event loop run: a request that is not settled is settled, at the
\* latest by its timeout, and a scheduled delete is carried out
SpecPendingLive ==
    /\ SpecPending
    /\ \A id \in 1..MaxLoads : WF_vars(MessageTimeout(id)) /\ WF_vars(DeleteTimerFires(id))

(***************************************************************************)
(* _analyzeForm on its own: a form and the URL of its page are drawn and   *)
(* the form is analysed.                                                   *)
(***************************************************************************)
FormPool ==
    {[hasPassword |-> pw, hasEmail |-> em, hasCreditCard |-> cc, hasSSN |-> ssn,
      action |-> act] :
        pw \in BOOLEAN, em \in BOOLEAN, cc \in BOOLEAN, ssn \in BOOLEAN,
        act \in {"", "https://collect.evil/post"}}

FormPageUrls == {"https://google.com/", "https://accounts.google.com/", "http://google.com/",
                 "https://shop.test/", "http://shop.test/", "https://notgoogle.com/",
                 "https://google.com.evil.xyz/"}

FormTable ==
    [p \in FormPool \X FormPageUrls |-> AnalyzeForm(p[1], ParseURL(p[2]))]

InitForm ==
    /\ Constructed
    /\ memo = [key |-> <<>>, parsed |-> <<>>, urlAnalysis |-> <<>>, form |-> FormTable]
    /\ probe \in {[form |-> f, url |-> u, done |-> FALSE, result |-> EmptyAnalysis] :
                    f \in FormPool, u \in FormPageUrls}

AnalyzeOneForm ==
    /\ ~probe.done
    /\ probe' = [probe EXCEPT !.done = TRUE,
                              !.result = memo.form[<<probe.form, probe.url>>]]
    /\ UNCHANGED <<now, cacheVars, exported, last, engineVars, nops, recency, memo>>

NextForm == AnalyzeOneForm

SpecForm == InitForm /\ [][NextForm]_vars

(***************************************************************************)
(* _getRiskLevel on its own: two scores are drawn and classified.          *)
(***************************************************************************)
MaxScore == 120   \* the scores classified run over 0..MaxScore

ScorePairs ==
    {[a |-> a, b |-> b, done |-> FALSE, la |-> "", lb |-> ""] :
        a \in 0..MaxScore, b \in 0..MaxScore}

InitLevel ==
    /\ Constructed
    /\ memo = KeysOnly
    /\ probe \in {p \in ScorePairs : p.a <= p.b}

GetLevels ==
    /\ ~probe.done
    /\ probe' = [probe EXCEPT !.done = TRUE,
                              !.la = GetRiskLevel(probe.a),
                              !.lb = GetRiskLevel(probe.b)]
    /\ UNCHANGED <<now, cacheVars, exported, last, engineVars, nops, recency, memo>>

NextLevel == GetLevels

SpecLevel == InitLevel /\ [][NextLevel]_vars

(***************************************************************************)
(* Properties.                                                             *)
(***************************************************************************)
RECURSIVE SumScores(_)
SumScores(analyses) ==
    IF analyses = <<>> THEN 0 ELSE Head(analyses).score + SumScores(Tail(analyses))

RECURSIVE ConcatThreats(_)
ConcatThreats(analyses) ==
    IF analyses = <<>> THEN <<>> ELSE Head(analyses).threats \o ConcatThreats(Tail(analyses))

Returned == pc = "idle" /\ call # NoCall

\* C1: every analyze() call that has returned, whatever the url, the document, the
\* cache content and the clock readings during the call, returned an Assessment
\* (never null) whose level is the classification of its score.
C1_AlwaysWellFormed ==
    Returned =>
        /\ ret # Null
        /\ ret.level = GetRiskLevel(ret.score)

\* C2: when analyze() reads the cache for a url whose entry is live at that reading
\* (now - insertedAt <= ttl), it returns the stored Assessment as it is, no pass has
\* run in the call and the entry stays as it was, whatever document the call was
\* given and whatever document the stored Assessment was computed with.
C2_HitReturnsStored ==
    [][ (pc = "hit" /\ pc' = "idle") =>
            LET key == GenerateKey(call.url.s)
            IN  (MapHas(cache, key) /\ now - MapGet(cache, key).timestamp <= TtlMs) =>
                    /\ ret' = MapGet(cache, key).data
                    /\ passes' = <<>>
                    /\ results' = Null
                    /\ MapHas(cache', key)
                    /\ MapGet(cache', key) = MapGet(cache, key) ]_vars

\* a call given the login document returned, from the cache, the Assessment computed
\* from the URL alone
C2_Witness ==
    /\ Returned
    /\ call.path = "hit"
    /\ call.doc = DocLogin
    /\ ret # Null
    /\ ret.score > 0
    /\ ret.score = AnalyzeURL(call.url.s).score
    /\ ret.timestamp < now

\* C3: a call whose url is not a non-empty string returns at once an Assessment with
\* score 0, level 'safe', no threats and an error marker, and leaves the cache's
\* entries, access times and counters as they were.
C3_InvalidInputSafe ==
    [][ (nops' = nops + 1 /\ ~(call'.url.type = "string" /\ call'.url.s # "")) =>
            /\ pc' = "idle"
            /\ ret' # Null
            /\ ret'.score = 0
            /\ ret'.level = "safe"
            /\ ret'.threats = <<>>
            /\ ret'.error # <<>>
            /\ UNCHANGED cacheVars ]_vars

\* a number was passed as url to a detector whose cache holds an entry
C3_Witness ==
    /\ Returned
    /\ call.url.type = "number"
    /\ call.doc = DocLogin
    /\ cache # <<>>
    /\ stats.sets > 0
    /\ ret # Null
    /\ ret.error # <<>>

\* C4: a call whose url is a non-empty string that does not parse as a URL returns
\* score 0, level 'safe' and no threats, with or without a document.
C4_UnparseableIsSafe ==
    (Returned /\ call.url.type = "string" /\ call.url.s # "" /\ ~UrlParses(call.url.s)
        /\ ret # Null) =>
        /\ ret.score = 0
        /\ ret.level = "safe"
        /\ ret.threats = <<>>

NotThrew(analysis) == ~analysis.threw

\* C5: on a cache miss, a pass in which an exception was raised adds nothing to the
\* Assessment (its score and threats are those of the passes that did not throw),
\* and all the passes of the call have run.
C5_FailedPassContributesNothing ==
    (Returned /\ call.path = "miss") =>
        /\ Len(passes) = IF call.doc = Null THEN 1 ELSE 4
        /\ ret.score = SumScores(SelectSeq(passes, NotThrew))
        /\ ret.threats = ConcatThreats(SelectSeq(passes, NotThrew))

\* the partial results of the passes of a call, in the order URL, Content, Forms,
\* Behavior
PassesInOrder(url, doc) ==
    IF doc = Null
    THEN <<AnalyzeURL(url)>>
    ELSE <<AnalyzeURL(url), AnalyzeContent(doc), AnalyzeForms(doc, url), AnalyzeBehavior(doc)>>

LevelRank(level) ==
    CASE level = "safe" -> 0
      [] level = "low" -> 1
      [] level = "medium" -> 2
      [] level = "high" -> 3
      [] level = "critical" -> 4

\* C7: every score has a level: critical from 80, high from 60 to 79, medium from 40
\* to 59, low from 20 to 39, safe below 20; and a larger score never has a lower
\* level.
C7_LevelThresholds ==
    probe.done =>
        /\ probe.la = (IF probe.a >= 80 THEN "critical"
                       ELSE IF probe.a >= 60 THEN "high"
                       ELSE IF probe.a >= 40 THEN "medium"
                       ELSE IF probe.a >= 20 THEN "low"
                       ELSE "safe")
        /\ probe.lb \in {"safe", "low", "medium", "high", "critical"}
        /\ LevelRank(probe.la) <= LevelRank(probe.lb)

\* the scores 79 and 80 classified: high and critical
C7_Witness ==
    /\ probe.done
    /\ probe.a = 79
    /\ probe.b = 80
    /\ probe.la = "high"
    /\ probe.lb = "critical"

\* C8: an entry is what the latest set of its key stored, with the time of that set
\* (no other operation writes or changes an entry); get returns that value exactly
\* when now - insertedAt <= ttl and counts a hit; otherwise it returns absent,
\* counts one miss and the key is no longer stored.
C8_Visibility ==
    [][ /\ \A k \in MapKeys(cache') :
            IF last'.op = "set" /\ k = GenerateKey(last'.url)
            THEN MapGet(cache', k) = [data |-> last'.data, timestamp |-> now]
            ELSE MapHas(cache, k) /\ MapGet(cache', k) = MapGet(cache, k)
        /\ last'.op = "get" =>
            LET key == GenerateKey(last'.url)
                live == MapHas(cache, key) /\ now - MapGet(cache, key).timestamp <= TtlMs
            IN  /\ last'.ok = live
                /\ live => /\ last'.data = MapGet(cache, key).data
                           /\ stats'.hits = stats.hits + 1
                           /\ stats'.misses = stats.misses
                /\ ~live => /\ ~MapHas(cache', key)
                            /\ stats'.misses = stats.misses + 1
                            /\ stats'.hits = stats.hits ]_vars

\* a get that returned a value stored exactly ttl ago, after the key had been read
\* before
C8_Witness ==
    /\ last.op = "get"
    /\ last.ok
    /\ MapHas(cache, GenerateKey(last.url))
    /\ now - MapGet(cache, GenerateKey(last.url)).timestamp = TtlMs
    /\ stats.hits > 1

\* C9: when set stores a new key in a cache that holds maxEntries entries, exactly
\* one entry leaves the cache, and it is the one whose last access (its set or its
\* last successful get) is the oldest.
C9_EvictsLeastRecentlyAccessed ==
    [][ (last'.op = "set" /\ Len(cache) = MaxEntries
            /\ ~MapHas(cache, GenerateKey(last'.url))) =>
            MapKeys(cache') =
                (MapKeys(cache) \ {Head(recency)}) \cup {GenerateKey(last'.url)} ]_vars

\* C10: the cache never holds more than maxEntries entries.
C10_Bounded == Len(cache) <= MaxEntries

AllUnexpired == \A i \in 1..Len(cache) : now - cache[i].val.timestamp <= TtlMs

\* C11: in every state of a cache whose entries are all unexpired, importing what
\* export() returns gives true, and afterwards get returns for every url the same
\* Assessment (or the same absence) as it returns before the export.
C11_RoundTrip ==
    AllUnexpired =>
        LET r == CacheImport(Manager, CacheExport(Manager, now), now)
        IN  /\ r.value = TRUE
            /\ \A u \in IOUrls :
                    CacheGet(r.cm, u, now).value = CacheGet(Manager, u, now).value

\* the cache's own snapshot, holding an entry written ttl ago, has just been imported
C11_Witness ==
    /\ last.op = "import"
    /\ last.ok
    /\ exported.kind = "object"
    /\ exported.entries = CacheExport(Manager, now).entries
    /\ AllUnexpired
    /\ \E u \in IOUrls :
            /\ MapHas(cache, GenerateKey(u))
            /\ now - MapGet(cache, GenerateKey(u)).timestamp = TtlMs
            /\ CacheGet(Manager, u, now).value.found

\* a snapshot text that is not a snapshot: unparseable, null, with an entries field
\* that is no list, or with a list element that is no entry
Malformed(blob) ==
    \/ blob.kind \in {"garbage", "null"}
    \/ blob.entriesKind = "number"
    \/ \E i \in 1..Len(blob.entries) : ~blob.entries[i].ok

\* C12: an import of a malformed snapshot returns false and leaves the entries, the
\* access times and the counters of the cache as they were.
C12_MalformedImportUntouched ==
    [][ (last'.op = "import" /\ Malformed(last'.data)) =>
            /\ ~last'.ok
            /\ UNCHANGED cacheVars ]_vars

\* the counters of a snapshot (all zero when it has no stats)
SnapshotStats(blob) == IF blob.hasStats THEN blob.stats ELSE ZeroStats

\* C13: after a successful import each counter is its value before the import plus
\* the snapshot's value (import does not reset the counters).
C13_ImportAddsStats ==
    [][ (last'.op = "import" /\ last'.ok) =>
            /\ stats'.hits = stats.hits + SnapshotStats(last'.data).hits
            /\ stats'.misses = stats.misses + SnapshotStats(last'.data).misses
            /\ stats'.evictions = stats.evictions + SnapshotStats(last'.data).evictions
            /\ stats'.sets = stats.sets + SnapshotStats(last'.data).sets ]_vars

StripFragment(s) == IF Includes(s, "#") THEN SubSeq(s, 1, IndexOf(s, "#") - 1) ELSE s

\* pairs of URLs that differ only in fragment or letter case, and pairs of strings
\* that are no URLs and differ only in letter case
SameEntryPairs ==
    {p \in {q \in KeyUrls \X KeyUrls : q[1] # q[2]} :
        \/ /\ UrlParses(p[1]) /\ UrlParses(p[2])
           /\ ToLowerCase(StripFragment(p[1])) = ToLowerCase(StripFragment(p[2]))
        \/ /\ ~UrlParses(p[1]) /\ ~UrlParses(p[2])
           /\ ToLowerCase(p[1]) = ToLowerCase(p[2])}

NotURLs == {u \in KeyUrls : ~UrlParses(u)}

\* get, set, has and delete do the same with the two URLs of every such pair
SameEntry ==
    \A p \in SameEntryPairs :
        /\ CacheGet(Manager, p[1], now) = CacheGet(Manager, p[2], now)
        /\ CacheHas(Manager, p[1], now) = CacheHas(Manager, p[2], now)
        /\ CacheDelete(Manager, p[1]) = CacheDelete(Manager, p[2])
        /\ \A d \in DataPool :
               CacheSet(Manager, p[1], d, now) = CacheSet(Manager, p[2], d, now)

C16_LegitimateDomainSafe ==
    (Returned /\ call.path = "miss" /\ call.doc = Null
        /\ call.url = StringArg("https://accounts.google.com/signin"))
    => /\ ret.score = 0
       /\ ret.threats = <<>>
       /\ ret.level = "safe"

\* C17: _detectTyposquatting("arnaz0n.com") reports a match and names amazon.com.
C17_Arnaz0nNamesAmazon ==
    (probe.done /\ probe.domain = "arnaz0n.com") => probe.target = "amazon.com"

\* C18: _detectTyposquatting reports no match for any domain of the catalog.
C18_CatalogNotFlagged ==
    (probe.done /\ probe.domain \in Range(LegitimateDomains)) => probe.target = ""

\* C19: gooogle.com is flagged as typosquatting of google.com, and collapsing the
\* doubled characters of 'gooogle' yields 'google'.
C19_DoubledCharsMatch ==
    (probe.done /\ probe.domain = "gooogle.com")
    => /\ probe.target = "google.com"
       /\ probe.deduped = "google"

RECURSIVE EditDistance(_, _)
\* the least number of insertions, deletions and substitutions of one character
\* that turn a into b
EditDistance(a, b) ==
    IF a = "" THEN Len(b)
    ELSE IF b = "" THEN Len(a)
    ELSE IF Head(a) = Head(b) THEN EditDistance(Tail(a), Tail(b))
    ELSE 1 + Min(EditDistance(Tail(a), Tail(b)),
                 Min(EditDistance(Tail(a), b), EditDistance(a, Tail(b))))

\* C20: the distance computed is the edit distance with unit costs: it is 0 exactly
\* when the strings are equal, the same in both directions, 1 for (paypal, paypa1),
\* 0 for (amazon, amazon) and 1 for (google, gogle).
C20_IsEditDistance ==
    probe.done =>
        /\ probe.ab = EditDistance(probe.a, probe.b)
        /\ (probe.ab = 0) <=> (probe.a = probe.b)
        /\ probe.ab = probe.ba
        /\ (probe.a = "paypal" /\ probe.b = "paypa1") => probe.ab = 1
        /\ (probe.a = "amazon" /\ probe.b = "amazon") => probe.ab = 0
        /\ (probe.a = "google" /\ probe.b = "gogle") => probe.ab = 1

\* the distance of (google, gogle) has been computed
C20_Witness ==
    /\ probe.done
    /\ probe.a = "google"
    /\ probe.b = "gogle"
    /\ probe.ab = 1

HasThreat(threats, msg) == \E i \in 1..Len(threats) : threats[i].msg = msg

\* C21: analyze("http://192.168.1.1/login") without a document returns a score of at
\* least IP_ADDRESS_DOMAIN + NON_HTTPS_SENSITIVE, a level of medium or higher, and
\* threats that hold the IP-address message and the non-HTTPS message.
C21_IpLoginScored ==
    (Returned /\ call.path = "miss" /\ call.doc = Null
        /\ call.url = StringArg("http://192.168.1.1/login"))
    => /\ ret.score >= IP_ADDRESS_DOMAIN + NON_HTTPS_SENSITIVE
       /\ ret.level \in {"medium", "high", "critical"}
       /\ HasThreat(ret.threats, "Using IP address instead of domain name")
       /\ HasThreat(ret.threats, "Non-HTTPS connection on sensitive page")

\* that call has returned
C21_Witness ==
    /\ Returned
    /\ call.path = "miss"
    /\ call.doc = Null
    /\ call.url = StringArg("http://192.168.1.1/login")
    /\ ret.score >= 55

\* thresholds strictly increasing, the weight a non-negative integer, the
\* keyboard-proximity threshold in (0, 1]
ValidConfig(c) ==
    /\ c # Null
    /\ c.RISK_THRESHOLDS.LOW < c.RISK_THRESHOLDS.MEDIUM
    /\ c.RISK_THRESHOLDS.MEDIUM < c.RISK_THRESHOLDS.HIGH
    /\ c.RISK_THRESHOLDS.HIGH < c.RISK_THRESHOLDS.CRITICAL
    /\ c.IP_WEIGHT.den = 1
    /\ c.IP_WEIGHT.num >= 0
    /\ c.KEYBOARD_PROXIMITY_THRESHOLD.num > 0
    /\ c.KEYBOARD_PROXIMITY_THRESHOLD.num <= c.KEYBOARD_PROXIMITY_THRESHOLD.den

\* C22: a configuration with thresholds that are not strictly increasing, a negative
\* or non-integer weight, or a keyboard-proximity threshold outside (0,1] is
\* rejected by the constructor, and no engine analyses with it.
C22_ConfigValidated ==
    ~ValidConfig(probe.config) => (probe.engine # "constructed" /\ ~probe.analysed)

\* the patterns documented as triggering the block: an IPv4-literal host, a
\* suspicious TLD, a login or payment path without HTTPS
DangerousUrls ==
    {u \in {v \in NavUrls : UrlParses(v)} :
        \/ IpAddressPattern(u)
        \/ HasSuspiciousTLD(ToLowerCase(ParseURL(u).hostname))
        \/ /\ ParseURL(u).protocol # "https:"
           /\ \/ Includes(ToLowerCase(ParseURL(u).pathname), "login")
              \/ Includes(ToLowerCase(ParseURL(u).pathname), "payment")}

\* C23: a navigation the user starts to a URL showing one of the documented
\* dangerous patterns never gets past the listener: the page is not loaded.
C23_DangerousBlocked ==
    ~(probe.via = "user" /\ probe.status \in {"committed", "complete"}
        /\ probe.url \in DangerousUrls)

\* C24: once the user has confirmed 'proceed' for a blocked URL, the tab eventually
\* loads that URL.
C24_ProceedLoads ==
    \A u \in NavUrls :
        (probe.via = "proceed" /\ probe.status = "loading" /\ probe.url = u)
            ~> (probe.status = "complete" /\ probe.url = u)

\* C25: the re-analysis that an added form, iframe or script triggers yields the
\* assessment of the page as it now is.
C25_ReanalysisSeesNewContent ==
    [][ (probe.pending /\ ~probe'.pending /\ probe'.runs = probe.runs + 1)
        => Verdict(probe.url, probe'.currentAnalysis)
            = Verdict(probe.url, FreshResults(probe.url, probe.doc, now)) ]_vars

\* C26: once the overlay was dismissed with 'proceed' for the page's URL no step
\* puts an overlay up again, and there is never more than one overlay.
C26_SessionMemory ==
    [][ /\ probe'.overlays <= 1
        /\ (probe.url \in probe.dismissedWarnings) => probe'.overlays = 0 ]_vars

\* after the dismissal the page was analysed again, with a level that calls for a
\* warning, and no overlay is up
C26_Witness ==
    /\ probe.url \in probe.dismissedWarnings
    /\ probe.runs > probe.runsAtDismissal
    /\ probe.currentAnalysis.level \in {"medium", "high", "critical"}
    /\ probe.overlays = 0
    /\ ~probe.isWarningDisplayed

FirstLabel(domain) == Split(domain, ".")[1]

\* an entry of the catalog that is not skipped and passes one of the five tests
Passes(cur, legit) ==
    /\ legit # cur
    /\ Len(legit) - Len(cur) <= 3
    /\ Len(cur) - Len(legit) <= 3
    /\ \/ /\ CalculateLevenshteinDistance(legit, cur) \in 1..MAX_LEVENSHTEIN_DISTANCE
          /\ Len(legit) >= MIN_DOMAIN_LENGTH
       \/ (Includes(cur, legit) /\ cur # legit)
       \/ Normalize(cur, 1) = legit
       \/ DetectKeyboardProximityAttack(cur, legit)
       \/ Dedup(cur) = legit

RECURSIVE FirstPassing(_, _)
\* the first entry of the catalog from position k on that passes, "" when none does
FirstPassing(cur, k) ==
    IF k > Len(LegitimateDomains) THEN ""
    ELSE IF Passes(cur, FirstLabel(LegitimateDomains[k])) THEN LegitimateDomains[k]
    ELSE FirstPassing(cur, k + 1)

Substitute(c) ==
    LET hit == {k \in 1..Len(CharSubstitutions) : CharSubstitutions[k].fake = c}
    IN  IF hit = {} THEN c ELSE CharSubstitutions[CHOOSE k \in hit : TRUE].real

RECURSIVE SubstituteAll(_)
SubstituteAll(str) ==
    IF str = "" THEN "" ELSE Substitute(CharAt(str, 1)) \o SubstituteAll(Tail(str))

\* C28: the normalization replaces every occurrence of each key character of the
\* substitution map by its value and keeps every other character in place; a label
\* with no key character comes back unchanged.
C28_NormalizeSubstitutes ==
    probe.done => probe.normalized = SubstituteAll(probe.label)

\* the configured keywords that are substrings of the lowercased URL
KeywordsIn(url) ==
    {k \in 1..Len(SUSPICIOUS_KEYWORDS) : Includes(ToLowerCase(url), SUSPICIOUS_KEYWORDS[k])}

\* the ten URL rules for url: the weight each adds and the message of its threat
UrlRules(url) ==
    LET u == ParseURL(url)
        domain == ToLowerCase(u.hostname)
        path == ToLowerCase(u.pathname)
        W(cond, w) == IF cond THEN w ELSE 0
    IN  <<[add |-> W(u.protocol # "https:" /\ IsSensitivePath(path), NON_HTTPS_SENSITIVE),
           msg |-> "Non-HTTPS connection on sensitive page"],
          [add |-> W(IpAddressPattern(url), IP_ADDRESS_DOMAIN),
           msg |-> "Using IP address instead of domain name"],
          [add |-> W(HasSuspiciousTLD(domain), SUSPICIOUS_TLD),
           msg |-> "Suspicious top-level domain"],
          [add |-> W(GetSubdomainCount(domain) > 3, EXCESSIVE_SUBDOMAINS),
           msg |-> "Excessive subdomains detected"],
          [add |-> Cardinality(KeywordsIn(url)) * SUSPICIOUS_KEYWORD,
           msg |-> "Suspicious keywords"],
          [add |-> W(DetectHomographAttack(domain), HOMOGRAPH_ATTACK),
           msg |-> "Possible homograph attack (lookalike characters)"],
          [add |-> W(DetectTyposquatting(domain) # "", TYPOSQUATTING),
           msg |-> "Possible typosquatting: similar to"],
          [add |-> W(Includes(ToLowerCase(url), "@"), URL_AT_SYMBOL),
           msg |-> "URL contains @ symbol (possible redirect)"],
          [add |-> W(IsURLShortener(domain), URL_SHORTENER),
           msg |-> "URL shortener detected"],
          [add |-> W(HasEmbeddedURL(path), EMBEDDED_URL),
           msg |-> "Embedded URL in path (redirect chain)"]>>

RECURSIVE SumAdds(_)
SumAdds(rules) == IF rules = <<>> THEN 0 ELSE Head(rules).add + SumAdds(Tail(rules))

\* C29: the score of the URL pass is the sum of the weights of the rules whose
\* condition holds, the keyword rule counting once per configured keyword found;
\* every rule that adds has its threat in the list exactly once, no other threat
\* is there, and the keyword threat names at most three keywords.
C29_UrlScoreIsRuleSum ==
    probe.done =>
        LET rules == UrlRules(probe.url)
            threats == probe.analysis.threats
        IN  /\ probe.analysis.score = SumAdds(rules)
            /\ \A r \in 1..Len(rules) :
                   Cardinality({i \in 1..Len(threats) : threats[i].msg = rules[r].msg})
                       = IF rules[r].add > 0 THEN 1 ELSE 0
            /\ Len(threats) = Cardinality({r \in 1..Len(rules) : rules[r].add > 0})
            /\ \A i \in 1..Len(threats) :
                   threats[i].msg = "Suspicious keywords"
                       => /\ Len(threats[i].names) <= 3
                          /\ Len(threats[i].names) <= Cardinality(KeywordsIn(probe.url))
                          /\ \A j \in 1..Len(threats[i].names) :
                                 Includes(ToLowerCase(probe.url), threats[i].names[j])

\* a URL with more than three keywords on which another rule fires as well
C29_Witness ==
    /\ probe.done
    /\ Cardinality(KeywordsIn(probe.url)) > 3
    /\ probe.analysis.score > Cardinality(KeywordsIn(probe.url)) * SUSPICIOUS_KEYWORD
    /\ HasThreat(probe.analysis.threats, "Suspicious keywords")
    /\ HasThreat(probe.analysis.threats, "Suspicious top-level domain")

\* the host is a domain of the catalog or a subdomain of one
KnownHost(hostname) ==
    \E k \in 1..Len(LegitimateDomains) :
        \/ hostname = LegitimateDomains[k]
        \/ EndsWith(hostname, "." \o LegitimateDomains[k])

\* what the rules of _analyzeForm other than the login tier add for form f on page u
OtherFormRules(f, u) ==
    (IF f.hasPassword /\ u.protocol # "https:" THEN PASSWORD_NO_HTTPS ELSE 0)
    + (IF f.action # "" /\ ~Includes(f.action, u.hostname)
            /\ (f.hasPassword \/ f.hasEmail \/ f.hasCreditCard)
       THEN EXTERNAL_FORM_ACTION ELSE 0)
    + (IF f.hasCreditCard THEN CREDIT_CARD_REQUEST ELSE 0)
    + (IF f.hasSSN THEN SSN_REQUEST ELSE 0)

\* C30: a form with an email and a password input adds exactly one login tier:
\* HTTPS_LOGIN_KNOWN on an https page whose host is a catalog domain or a subdomain
\* of one, HTTPS_LOGIN_UNKNOWN on an https page of any other host, HTTP_LOGIN with
\* its threat on a page that is not https.
C30_LoginTier ==
    (probe.done /\ probe.form.hasEmail /\ probe.form.hasPassword) =>
        LET u == ParseURL(probe.url)
            tier == probe.result.score - OtherFormRules(probe.form, u)
        IN  /\ tier = IF u.protocol # "https:" THEN HTTP_LOGIN
                      ELSE IF KnownHost(u.hostname) THEN HTTPS_LOGIN_KNOWN
                      ELSE HTTPS_LOGIN_UNKNOWN
            /\ HasThreat(probe.result.threats, "Login form on non-HTTPS page")
                    <=> (u.protocol # "https:")

\* C31: the Assessment returned for a URL that parses carries, in its details, at
\* least the protocol, the domain and the subdomainCount of the analysed URL.
C31_DetailsCarried ==
    (Returned /\ call.url.type = "string" /\ UrlParses(call.url.s)) =>
        LET urlObj == ParseURL(call.url.s)
        IN  /\ {"protocol", "domain", "subdomainCount"} \subseteq ret.details.keys
            /\ ret.details.protocol = urlObj.protocol
            /\ ret.details.domain = ToLowerCase(urlObj.hostname)
            /\ ret.details.subdomainCount = GetSubdomainCount(ToLowerCase(urlObj.hostname))

\* C32: the Levenshtein memo table never holds more than its cap of entries, and an
\* entry removed on overflow is the oldest inserted one.
C32_MemoCapped ==
    /\ Len(probe.cache) <= LevCacheLimit
    /\ probe.evicted # <<>> => probe.evicted = probe.oldest

\* the positions both labels have
Aligned(current, legitimate) == 1..Min(Len(current), Len(legitimate))

\* the aligned positions with the same character
EqualAt(current, legitimate) ==
    {i \in Aligned(current, legitimate) : CharAt(current, i) = CharAt(legitimate, i)}

\* the aligned positions where the candidate's character is a neighbour of the
\* reference's character in the adjacency map
AdjacentAt(current, legitimate) ==
    {i \in Aligned(current, legitimate) \ EqualAt(current, legitimate) :
        \E k \in DOMAIN KeyboardProximity :
            /\ k = CharAt(legitimate, i)
            /\ \E j \in 1..Len(KeyboardProximity[k]) :
                    CharAt(KeyboardProximity[k], j) = CharAt(current, i)}

\* C33: keyboardProximity declares an attack exactly when the lengths differ by at
\* most 2 and (1 per equal aligned character + 0.5 per adjacent one) / longer length
\* is strictly greater than 0.8, i.e. 10 * (2 * equal + adjacent) > 16 * longer.
C33_ProximityRatio ==
    probe.done =>
        LET c == probe.current
            l == probe.legitimate
            longer == IF Len(c) > Len(l) THEN Len(c) ELSE Len(l)
            shorter == IF Len(c) > Len(l) THEN Len(l) ELSE Len(c)
        IN  probe.attack <=>
                /\ longer - shorter <= 2
                /\ 10 * (2 * Cardinality(EqualAt(c, l)) + Cardinality(AdjacentAt(c, l)))
                        > 16 * longer

\* C33 witness: 'spplw' was compared with 'apple' (3 equal, 2 adjacent: exactly 0.8,
\* no attack), and 'applw' passes the threshold only by its adjacent key (0.9)
C33_Witness ==
    /\ probe.done
    /\ probe.legitimate = "apple"
    /\ probe.current = "spplw"
    /\ Cardinality(AdjacentAt(probe.current, probe.legitimate)) = 2
    /\ ~probe.attack
    /\ memo.prox[<<"applw", "apple">>]

\* C34: after n analyze calls with valid URLs of which h were served from the cache
\* (no clear or import in between), getCacheStats reports hits = h, misses = n - h
\* and sets = n - h.
C34_StatsCountLookups ==
    /\ GetCacheStats.hits = probe.h
    /\ GetCacheStats.misses = probe.n - probe.h
    /\ GetCacheStats.sets = probe.n - probe.h

\* C35: the score, level and threats that analyze(u) returns for a call without a
\* document do not depend on the URLs analysed before: they are those an engine
\* without a cache returns for u.
C35_CacheTransparent ==
    probe.n > 0 =>
        /\ probe.value # Null
        /\ Verdict(probe.url, probe.value)
                = Verdict(probe.url, FreshResults(probe.url, Null, now))

\* C36: the cache's entry map and its access-time map have the same key set in every
\* state reachable by set, get, has, delete, cleanup, clear, eviction and import.
C36_MapsInSync == MapKeys(cache) = MapKeys(accessOrder)

\* C36 witness: a set has just evicted an entry of a full cache that an import filled
C36_Witness ==
    /\ last.op = "set"
    /\ stats.evictions > 0
    /\ Len(cache) = MaxEntries
    /\ \E i \in 1..Len(cache) : cache[i].key \notin {GenerateKey(u) : u \in IOUrls}

\* C37: the score and the threats the warning page shows for a blocked URL are those
\* analyze(url) without a document reports on a cold cache (the complete URL pass).
C37_WarningShowsFullPass ==
    (probe.done /\ memo.block[probe.blockedUrl]) =>
        LET full == FreshResults(probe.blockedUrl, Null, now)
        IN  /\ probe.analysisData.score = full.score
            /\ probe.analysisData.threats = full.threats

\* the ANALYZE_PAGE requests of key k whose promise is neither resolved nor rejected
Outstanding(k) == {r \in probe.requests : RequestKey(r.tabId, r.url) = k /\ ~r.settled}

PendingKeys == {RequestKey(tabId, url) : tabId \in Tabs, url \in LoadUrls}

\* C38: the background worker has at most one ANALYZE_PAGE request outstanding for a
\* (tabId, url) pair, and every entry of pendingRequests is removed in the end, also
\* when the request timed out or failed.
C38_OneOutstandingAndRemoved ==
    /\ [](\A k \in PendingKeys : Cardinality(Outstanding(k)) <= 1)
    /\ \A k \in PendingKeys : MapHas(probe.pending, k) ~> ~MapHas(probe.pending, k)

\* a second 'complete' event for a key was dropped, and the entry of a request that
\* got no response has been removed
C38_Witness ==
    /\ probe.events = 2
    /\ Cardinality(probe.requests) = 1
    /\ \A r \in probe.requests : r.settled /\ r.phase = "sent"
    /\ probe.pending = <<>>
    /\ probe.timers = {}

\* nothing of the page loads observed is still in flight
Quiescent ==
    /\ \A r \in probe.requests : r.settled /\ r.phase = "answered"
    /\ probe.inbox = {}

\* C39: a page load analysed through ANALYZE_PAGE raises stats.sitesChecked by exactly
\* one and stats.threatsBlocked by at most one, however the response and the
\* ANALYSIS_COMPLETE message interleave.
C39_OneLoadCountedOnce ==
    Quiescent => /\ probe.stats.sitesChecked = probe.analysed
                 /\ probe.stats.threatsBlocked <= probe.analysed

====
